---- MODULE Spec2Model ----
(***************************************************************************)
(* A model of the script-generation pipeline of                           *)
(* src/script-generation/generate_scripts.py: the response parser         *)
(* (VideoIdeaGenerator._parse_response), the news grounding enricher      *)
(* (fetch_news_headlines, build_news_context), the prompt builder and the *)
(* orchestration of one call (generate_10_scripts / generate_ideas).      *)
(*                                                                         *)
(* Text is a sequence of atoms.  An atom is one character class or one    *)
(* indivisible lexeme of the text: the JSON punctuation, a quote, a       *)
(* triple-backtick fence, a control character, a word.  The string   *)
(* operations (in, split, find, rfind, slicing, re.sub) are modelled on   *)
(* these sequences with the Python index conventions.                       *)
(***************************************************************************)
EXTENDS Integers, Sequences, FiniteSets, TLC

VARIABLES
    pc,             \* position of the call in generate_10_scripts / generate_ideas
    use_news,       \* argument use_news of generate_10_scripts
    save_files,     \* argument save_files of generate_10_scripts
    platform,       \* argument platform (a string, later the SocialPlatform value)
    provider,       \* argument provider together with the credential found for it
    news_articles,  \* local news_articles of generate_10_scripts
    news_context,   \* local news_context of generate_10_scripts
    generator,      \* the VideoIdeaGenerator: client and last_*_prompt fields
    content,        \* raw text returned by client.generate
    data,           \* local data of _parse_response: the decoded JSON payload
    ideas,          \* list of VideoIdea returned by _parse_response
    scripts,        \* formatted scripts of generate_10_scripts
    saved,          \* what save_scripts wrote
    exc,            \* the exception raised by the failing stage, if any
    outcome,        \* how the call ended and the error it reported
    stages,         \* the stages entered so far, in order
    provider_calls, \* number of client.generate calls issued
    given,          \* how the provider output of this run was put together
    news_max_articles, \* argument news_max_articles of generate_10_scripts
    news_env,       \* what the environment answered to fetch_news_headlines
    requests_log,   \* the requests.get calls issued so far, in order
    args,           \* the arguments of the generate_ideas call
    prompt,         \* locals system_prompt and prompt of generate_ideas
    sent,           \* the prompts client.generate was called with
    earlier,        \* an earlier generate_ideas call: its arguments and prompts
    JINA_WARNING_EMITTED, \* the module-level flag of line 413
    printed,        \* the JINA_API_KEY advisories printed so far, in order
    reqs,           \* the generation requests running concurrently, one record each
    generators,     \* the last_*_prompt fields of the generators the requests use
    units,          \* the topics or platforms of a batch, each with its provider output
    results,        \* local results of the batch methods: the ideas of each unit done
    batch_saved     \* the results written by _save_batch_results and its sibling

vars == <<pc, use_news, save_files, platform, provider, news_articles,
          news_context, generator, content, data, ideas, scripts, saved,
          exc, outcome, stages, provider_calls, given, news_max_articles,
          news_env, requests_log, args, prompt, sent, earlier,
          JINA_WARNING_EMITTED, printed, reqs, generators, units, results, batch_saved>>

----------------------------------------------------------------------------
(* Atoms of text *)

LB == "{"
RB == "}"
LBRACK == "["
RBRACK == "]"
COLON == ":"
COMMA == ","
QUOTE == "QUOTE"
SPACE == "SP"
NEWLINE == "LF"
FENCE == "FENCE"
JSONWORD == "json"
CTL == "x01"
DEL == "x7f"
NUMBER == "1"
NULLWORD == "null"

\* re.sub(r"[\x00-\x08\x0b-\x0c\x0e-\x1f\x7f]", "", json_str): the characters removed
ControlChars == {CTL, DEL}

\* json.loads (strict): characters below 0x20 may not appear raw inside a string
RawControl == {CTL, NEWLINE}

JsonWhitespace == {SPACE, NEWLINE}

----------------------------------------------------------------------------
(* Python string operations on sequences of atoms *)

StartsAt(s, sub, i) ==
    /\ i + Len(sub) - 1 <= Len(s)
    /\ \A k \in 1..Len(sub) : s[i + k - 1] = sub[k]

\* first 1-based position >= i at which sub occurs in s, 0 when there is none
FindFrom(s, sub, i) ==
    LET hits == {p \in i..(Len(s) - Len(sub) + 1) : StartsAt(s, sub, p)}
    IN  IF hits = {} THEN 0 ELSE CHOOSE p \in hits : \A q \in hits : p <= q

\* sub in s
Contains(s, sub) == FindFrom(s, sub, 1) # 0

\* s.split(sep): the parts of s between the non-overlapping occurrences of sep
RECURSIVE Split(_, _)
Split(s, sep) ==
    LET p == FindFrom(s, sep, 1)
    IN  IF p = 0 THEN <<s>>
        ELSE <<SubSeq(s, 1, p - 1)>> \o Split(SubSeq(s, p + Len(sep), Len(s)), sep)

\* s.find(c): 0-based index of the first c, -1 when there is none
PyFind(s, c) ==
    IF \E i \in 1..Len(s) : s[i] = c
    THEN (CHOOSE i \in 1..Len(s) : s[i] = c /\ \A j \in 1..(i - 1) : s[j] # c) - 1
    ELSE -1

\* s.rfind(c): 0-based index of the last c, -1 when there is none
PyRFind(s, c) ==
    IF \E i \in 1..Len(s) : s[i] = c
    THEN (CHOOSE i \in 1..Len(s) : s[i] = c /\ \A j \in (i + 1)..Len(s) : s[j] # c) - 1
    ELSE -1

\* s[a:b] with the Python treatment of negative and out-of-range bounds
PySlice(s, a, b) ==
    LET n == Len(s)
        norm(x) == IF x < 0 THEN (IF x + n < 0 THEN 0 ELSE x + n)
                   ELSE (IF x > n THEN n ELSE x)
    IN  SubSeq(s, norm(a) + 1, norm(b))

\* re.sub with a character class that ends at \x1f: the character 127 is kept
StripControl_KeepDel(s) == SelectSeq(s, LAMBDA c : c # CTL)

\* re.sub(r"[\x00-\x08\x0b-\x0c\x0e-\x1f\x7f]", "", s)
StripControl(s) == SelectSeq(s, LAMBDA c : c \notin ControlChars)

----------------------------------------------------------------------------
(* JSON values: [t |-> kind, v |-> content].  A string's content is its   *)
(* atoms, an array's its elements, an object's its members in text order. *)

JStr(s) == [t |-> "str", v |-> s]
JArr(xs) == [t |-> "arr", v |-> xs]
JObj(ms) == [t |-> "obj", v |-> ms]
JNum == [t |-> "num", v |-> <<>>]
JNull == [t |-> "null", v |-> <<>>]
Member(k, val) == [k |-> k, val |-> val]

\* json.loads: a recursive-descent reading of one value starting at position i.
\* The answer is [ok, val, pos]: pos is the position after the value.
Fail == [ok |-> FALSE, val |-> JNull, pos |-> 0]
Got(val, pos) == [ok |-> TRUE, val |-> val, pos |-> pos]

\* first position >= i that holds no whitespace (Len(s) + 1 when there is none)
SkipWs(s, i) ==
    LET stops == {p \in i..Len(s) : s[p] \notin JsonWhitespace}
    IN  IF stops = {} THEN (IF i > Len(s) THEN i ELSE Len(s) + 1)
        ELSE CHOOSE p \in stops : \A q \in stops : p <= q

\* position of the quote closing the string whose content starts at j, 0 when the
\* string is unterminated or holds a raw control character
ScanString(s, j) ==
    LET stops == {p \in j..Len(s) : s[p] = QUOTE \/ s[p] \in RawControl}
        first == CHOOSE p \in stops : \A q \in stops : p <= q
    IN  IF stops = {} THEN 0
        ELSE IF s[first] = QUOTE THEN first
        ELSE 0

RECURSIVE ParseValue(_, _)
RECURSIVE ParseElements(_, _, _)
RECURSIVE ParseMembers(_, _, _)

ParseString(s, i) ==
    IF i > Len(s) \/ s[i] # QUOTE THEN Fail
    ELSE LET j == ScanString(s, i + 1)
         IN  IF j = 0 THEN Fail ELSE Got(JStr(SubSeq(s, i + 1, j - 1)), j + 1)

\* the elements of an array after "[" or ",": i is where the next element starts
ParseElements(s, i, acc) ==
    LET e == ParseValue(s, i)
    IN  IF ~e.ok THEN Fail
        ELSE LET k == SkipWs(s, e.pos)
             IN  IF k > Len(s) THEN Fail
                 ELSE IF s[k] = COMMA THEN ParseElements(s, k + 1, Append(acc, e.val))
                 ELSE IF s[k] = RBRACK THEN Got(JArr(Append(acc, e.val)), k + 1)
                 ELSE Fail

\* the members of an object after "{" or ",": i is where the next key starts
ParseMembers(s, i, acc) ==
    LET key == ParseString(s, SkipWs(s, i))
    IN  IF ~key.ok THEN Fail
        ELSE LET c == SkipWs(s, key.pos)
             IN  IF c > Len(s) \/ s[c] # COLON THEN Fail
                 ELSE LET e == ParseValue(s, c + 1)
                      IN  IF ~e.ok THEN Fail
                          ELSE LET k == SkipWs(s, e.pos)
                                   m == Append(acc, Member(key.val.v, e.val))
                               IN  IF k > Len(s) THEN Fail
                                   ELSE IF s[k] = COMMA THEN ParseMembers(s, k + 1, m)
                                   ELSE IF s[k] = RB THEN Got(JObj(m), k + 1)
                                   ELSE Fail

ParseValue(s, i0) ==
    LET i == SkipWs(s, i0)
    IN  IF i > Len(s) THEN Fail
        ELSE IF s[i] = QUOTE THEN ParseString(s, i)
        ELSE IF s[i] = NUMBER THEN Got(JNum, i + 1)
        ELSE IF s[i] = NULLWORD THEN Got(JNull, i + 1)
        ELSE IF s[i] = LBRACK THEN
            LET k == SkipWs(s, i + 1)
            IN  IF k <= Len(s) /\ s[k] = RBRACK THEN Got(JArr(<<>>), k + 1)
                ELSE ParseElements(s, i + 1, <<>>)
        ELSE IF s[i] = LB THEN
            LET k == SkipWs(s, i + 1)
            IN  IF k <= Len(s) /\ s[k] = RB THEN Got(JObj(<<>>), k + 1)
                ELSE ParseMembers(s, i + 1, <<>>)
        ELSE Fail

\* json.loads(s): one value, surrounded by whitespace only; [ok, val]
JsonLoads(s) ==
    LET r == ParseValue(s, 1)
    IN  IF r.ok /\ SkipWs(s, r.pos) = Len(s) + 1
        THEN [ok |-> TRUE, val |-> r.val]
        ELSE [ok |-> FALSE, val |-> JNull]

\* json.dumps-like rendering of a value, compact separators
RECURSIVE Ser(_)
RECURSIVE SerList(_, _)
SerMember(m) == <<QUOTE>> \o m.k \o <<QUOTE, COLON>> \o Ser(m.val)
SerList(xs, isObj) ==
    IF xs = <<>> THEN <<>>
    ELSE LET h == IF isObj THEN SerMember(Head(xs)) ELSE Ser(Head(xs))
         IN  IF Len(xs) = 1 THEN h ELSE h \o <<COMMA>> \o SerList(Tail(xs), isObj)
Ser(x) ==
    CASE x.t = "str" -> <<QUOTE>> \o x.v \o <<QUOTE>>
      [] x.t = "num" -> <<NUMBER>>
      [] x.t = "null" -> <<NULLWORD>>
      [] x.t = "arr" -> <<LBRACK>> \o SerList(x.v, FALSE) \o <<RBRACK>>
      [] x.t = "obj" -> <<LB>> \o SerList(x.v, TRUE) \o <<RB>>

----------------------------------------------------------------------------
(* The response parser: VideoIdeaGenerator._parse_response *)

\* SocialPlatform: the values of the enumeration
SocialPlatform == {"tiktok", "instagram_reels", "youtube_shorts"}

\* _get_platform_specs: the duration of each platform; specs[platform] raises
\* KeyError for any other key
PlatformDurations ==
    [tiktok |-> "15-60 seconds",
     instagram_reels |-> "15-90 seconds",
     youtube_shorts |-> "15-60 seconds"]

_get_platform_specs(p) ==
    IF p \in DOMAIN PlatformDurations
    THEN [err |-> "none", duration |-> PlatformDurations[p]]
    ELSE [err |-> "KeyError", duration |-> ""]

\* dict.get(key, default) on a decoded object: the last member of that key wins
DictGet(obj, key, default) ==
    LET hits == {i \in 1..Len(obj.v) : obj.v[i].k = key}
    IN  IF hits = {} THEN default
        ELSE obj.v[CHOOSE i \in hits : \A j \in hits : j <= i].val

\* what "for idea_data in x" iterates over: the elements of a list, the keys of a
\* dict, the characters of a string; None and numbers are not iterable
Iterable(x) == x.t \in {"arr", "obj", "str"}
IterItems(x) ==
    CASE x.t = "arr" -> x.v
      [] x.t = "obj" ->
            LET first == {i \in 1..Len(x.v) : \A j \in 1..(i - 1) : x.v[j].k # x.v[i].k}
                keys == SelectSeq([i \in 1..Len(x.v) |-> [i |-> i, k |-> x.v[i].k]],
                                  LAMBDA e : e.i \in first)
            IN  [i \in 1..Len(keys) |-> JStr(keys[i].k)]
      [] x.t = "str" -> [i \in 1..Len(x.v) |-> JStr(<<x.v[i]>>)]
      [] OTHER -> <<>>

\* VideoIdea(...) of lines 393-402
VideoIdea(idea_data, duration, p) ==
    [title |-> DictGet(idea_data, <<"title">>, JStr(<<>>)),
     hook |-> DictGet(idea_data, <<"hook">>, JStr(<<>>)),
     key_points |-> DictGet(idea_data, <<"key_points">>, JArr(<<>>)),
     cta |-> DictGet(idea_data, <<"cta">>, JStr(<<>>)),
     duration |-> duration,
     platform |-> p,
     hashtags |-> DictGet(idea_data, <<"hashtags">>, JArr(<<>>)),
     target_audience |-> DictGet(idea_data, <<"target_audience">>, JStr(<<>>))]

\* the result of a call of _parse_response: the ideas returned, or the error raised
Raised(e, d) == [err |-> e, ideas |-> <<>>, data |-> d]
Returned(xs, d) == [err |-> "none", ideas |-> xs, data |-> d]

\* lines 375-378 left out: the text is searched as it came
StripFence_Kept(response) == response

\* lines 375-378 taking the first fenced block of the text, a json block or not
StripFence_FirstBlock(response) ==
    IF Contains(response, <<FENCE>>)
    THEN LET body == Split(response, <<FENCE>>)[2]
         IN  IF body # <<>> /\ body[1] = JSONWORD THEN Tail(body) ELSE body
    ELSE response

\* lines 375-378: the text of the first fenced block, when there is a fence
StripFence(response) ==
    IF Contains(response, <<FENCE, JSONWORD>>)
    THEN Split(Split(response, <<FENCE, JSONWORD>>)[2], <<FENCE>>)[1]
    ELSE IF Contains(response, <<FENCE>>)
    THEN Split(Split(response, <<FENCE>>)[2], <<FENCE>>)[1]
    ELSE response

\* lines 389-404 with an empty list of ideas refused
BuildIdeas_NonEmpty(d, p) ==
    LET entries == DictGet(d, <<"ideas">>, JArr(<<>>))
        items == IterItems(entries)
    IN  IF d.t # "obj" THEN Raised("AttributeError", d)
        ELSE IF ~Iterable(entries) THEN Raised("TypeError", d)
        ELSE IF items = <<>> THEN Raised("FailedToParse", d)
        ELSE IF \E i \in 1..Len(items) : items[i].t # "obj"
        THEN Raised("AttributeError", d)
        ELSE Returned([i \in 1..Len(items) |->
                          VideoIdea(items[i], PlatformDurations[p], p)], d)

\* lines 389-404 with key_points and hashtags read by subscript, which raises
\* KeyError when the field is missing
BuildIdeas_RequireFields(d, p) ==
    LET platform_specs == _get_platform_specs(p)
        entries == DictGet(d, <<"ideas">>, JArr(<<>>))
        items == IterItems(entries)
    IN  IF platform_specs.err # "none" THEN Raised(platform_specs.err, d)
        ELSE IF d.t # "obj" THEN Raised("AttributeError", d)
        ELSE IF ~Iterable(entries) THEN Raised("TypeError", d)
        ELSE IF \E i \in 1..Len(items) : items[i].t # "obj"
        THEN Raised("AttributeError", d)
        ELSE IF \E i \in 1..Len(items), k \in {<<"key_points">>, <<"hashtags">>} :
                   \A m \in 1..Len(items[i].v) : items[i].v[m].k # k
        THEN Raised("KeyError", d)
        ELSE Returned([i \in 1..Len(items) |->
                          VideoIdea(items[i], platform_specs.duration, p)], d)

\* lines 389-404: the loop over data.get("ideas", [])
BuildIdeas(d, p) ==
    LET platform_specs == _get_platform_specs(p)
        entries == DictGet(d, <<"ideas">>, JArr(<<>>))
        items == IterItems(entries)
    IN  IF platform_specs.err # "none" THEN Raised(platform_specs.err, d)
        ELSE IF d.t # "obj" THEN Raised("AttributeError", d)
        ELSE IF ~Iterable(entries) THEN Raised("TypeError", d)
        ELSE IF \E i \in 1..Len(items) : items[i].t # "obj"
        THEN Raised("AttributeError", d)
        ELSE Returned([i \in 1..Len(items) |->
                          VideoIdea(items[i], platform_specs.duration, p)], d)

\* line 381 with a closing brace that precedes the opening one counted as no JSON
NoJsonFound_Ordered(json_start, json_end) ==
    json_start = -1 \/ json_end = 0 \/ json_end <= json_start

\* line 381: the test that no JSON object was found
NoJsonFound(json_start, json_end) == json_start = -1 \/ json_end = 0

_parse_response(response, p) ==
    LET r == StripFence(response)
        json_start == PyFind(r, LB)
        json_end == PyRFind(r, RB) + 1
    IN  IF NoJsonFound(json_start, json_end) THEN Raised("NoJsonFound", JNull)
        ELSE LET json_str == StripControl(PySlice(r, json_start, json_end))
                 loaded == JsonLoads(json_str)
             IN  IF ~loaded.ok THEN Raised("FailedToParse", JNull)
                 ELSE BuildIdeas(loaded.val, p)

\* video_idea_generator.py, SocialPlatform and _get_platform_specs, lines 330-350
vig_SocialPlatform == SocialPlatform \cup {"twitter"}
vig_PlatformDurations ==
    [tiktok |-> "15-60 seconds",
     instagram_reels |-> "15-90 seconds",
     youtube_shorts |-> "15-60 seconds",
     twitter |-> "15-45 seconds"]

\* video_idea_generator.py, lines 365-383: the loop over data.get("ideas", [])
vig_BuildIdeas(d, p) ==
    LET entries == DictGet(d, <<"ideas">>, JArr(<<>>))
        items == IterItems(entries)
    IN  IF p \notin DOMAIN vig_PlatformDurations THEN Raised("KeyError", d)
        ELSE IF d.t # "obj" THEN Raised("AttributeError", d)
        ELSE IF ~Iterable(entries) THEN Raised("TypeError", d)
        ELSE IF \E i \in 1..Len(items) : items[i].t # "obj"
        THEN Raised("AttributeError", d)
        ELSE Returned([i \in 1..Len(items) |->
                          VideoIdea(items[i], vig_PlatformDurations[p], p)], d)

\* lines 356-363 without the re.sub of line 361
vig_parse_response_NoStrip(response, p) ==
    LET json_start == PyFind(response, LB)
        json_end == PyRFind(response, RB) + 1
        loaded == JsonLoads(PySlice(response, json_start, json_end))
    IN  IF ~loaded.ok THEN Raised("FailedToParse", JNull)
        ELSE vig_BuildIdeas(loaded.val, p)

\* video_idea_generator.py, _parse_response, lines 352-385: no fence is stripped
\* and find's -1 goes into the slice as it is
vig_parse_response(response, p) ==
    LET json_start == PyFind(response, LB)
        json_end == PyRFind(response, RB) + 1
        json_str == StripControl(PySlice(response, json_start, json_end))
        loaded == JsonLoads(json_str)
    IN  IF ~loaded.ok THEN Raised("FailedToParse", JNull)
        ELSE vig_BuildIdeas(loaded.val, p)

----------------------------------------------------------------------------
(* Prompt construction: VideoIdeaGenerator._build_prompt, generate_ideas *)

\* None, where a text is expected
None == <<"None">>

\* platform.value.replace("_", " ").title()
PlatformTitle(p) ==
    CASE p = "tiktok" -> "Tiktok"
      [] p = "instagram_reels" -> "Instagram Reels"
      [] p = "youtube_shorts" -> "Youtube Shorts"
      [] OTHER -> p

\* _get_platform_specs: the best_practices text of each platform
PlatformBestPractices ==
    [tiktok |-> "Start with a strong hook, use trending sounds, add text overlays, keep it fast-paced",
     instagram_reels |-> "Use trending audio, vertical format, eye-catching visuals, engage in first 3 seconds",
     youtube_shorts |-> "Strong opening, clear value, encourage likes and subscribes, use captions"]

BASE_SCRIPT_CONTEXT == "Each video should be designed for exactly 30 seconds duration. ..."

\* the system prompt of generate_ideas, lines 272-275
SystemPrompt == <<"You are a creative social media content strategist ...">>

\* str(num_ideas)
NumText(n) == CASE n = 1 -> "1" [] n = 2 -> "2" [] n = 3 -> "3" [] OTHER -> "n"

\* lines 297-345 with a prompt that depends on the calls made before on the
\* generator
_build_prompt_Stateful(topic, p, num_ideas, target_audience, tone, additional_context) ==
    <<"Generate ", NumText(num_ideas), " creative video ideas for ", PlatformTitle(p),
      "TOPIC: ">> \o topic
    \o (IF generator.last_user_prompt = None THEN <<>> ELSE <<"(as before)">>)

\* _build_prompt, lines 297-345; additional_context is a text or None
_build_prompt(topic, p, num_ideas, target_audience, tone, additional_context) ==
    <<"Generate ", NumText(num_ideas), " creative video ideas for ", PlatformTitle(p),
      "TOPIC: ">> \o topic
    \o <<"PLATFORM SPECIFICATIONS:",
         "- Duration: ", PlatformDurations[p],
         "- Best practices: ", PlatformBestPractices[p],
         "TARGET AUDIENCE: ">>
    \o (IF target_audience = None \/ target_audience = <<>>
        THEN <<"General audience interested in the topic">> ELSE target_audience)
    \o <<"TONE: ">> \o tone
    \o <<"ADDITIONAL CONTEXT:", BASE_SCRIPT_CONTEXT>>
    \o (IF additional_context = None \/ additional_context = <<>>
        THEN <<>> ELSE <<NEWLINE>> \o additional_context \o <<NEWLINE>>)
    \o <<"IMPORTANT: Generate FULL NARRATION SCRIPTS ... For each idea, provide the following in JSON format: ...">>

----------------------------------------------------------------------------
(* News grounding: fetch_article_fulltext, fetch_news_headlines,           *)
(* build_news_context                                                      *)

\* The article records a news response can hold.  title and url are texts (empty
\* when the record has none); jina and direct say how the two fetches of the
\* article body end: with a text ("ok"), with a text of at most 20 characters
\* ("short"), with a RequestException ("fail").
RawArticles ==
    { [title |-> <<"N1">>, description |-> <<"D1">>, url |-> <<"u1">>, source |-> <<"S1">>, jina |-> "ok", direct |-> "short"],
      [title |-> <<"N2">>, description |-> <<>>, url |-> <<"u2">>, source |-> <<>>, jina |-> "short", direct |-> "fail"],
      [title |-> <<"N3">>, description |-> <<SPACE, "D3">>, url |-> <<>>, source |-> <<"S3">>, jina |-> "fail", direct |-> "fail"],
      [title |-> <<SPACE>>, description |-> <<"D4">>, url |-> <<"u4">>, source |-> <<>>, jina |-> "ok", direct |-> "ok"],
      [title |-> <<"N5">>, description |-> <<>>, url |-> <<"u5">>, source |-> <<>>, jina |-> "fail", direct |-> "ok"] }

\* str.strip() on a text
Strip(s) ==
    LET keep == {p \in 1..Len(s) : s[p] \notin JsonWhitespace}
    IN  IF keep = {} THEN <<>>
        ELSE SubSeq(s, CHOOSE p \in keep : \A q \in keep : p <= q,
                       CHOOSE p \in keep : \A q \in keep : q <= p)

\* fetch_article_fulltext(url, api_key), lines 432-469: the text found or None
fetch_article_fulltext(article, jina_api_key) ==
    IF article.url = <<>> THEN None
    ELSE IF jina_api_key /\ article.jina = "ok" THEN <<"jina text of ">> \o article.url
    ELSE IF article.direct = "ok" THEN <<"page text of ">> \o article.url
    ELSE None

\* lines 525-539: the records built from the titled articles of the response
RECURSIVE CollectArticles(_, _)
CollectArticles(raw, jina_api_key) ==
    IF raw = <<>> THEN <<>>
    ELSE LET article == Head(raw)
             title == Strip(article.title)
             rest == CollectArticles(Tail(raw), jina_api_key)
         IN  IF title = <<>> THEN rest
             ELSE <<[title |-> title,
                     description |-> Strip(article.description),
                     url |-> article.url,
                     source |-> article.source,
                     full_content |-> IF article.url # <<>>
                                      THEN fetch_article_fulltext(article, jina_api_key)
                                      ELSE None]>> \o rest

\* lines 511-516 with the errors of the request and of the status raised
fetch_news_headlines_Raise(env, max_articles) ==
    IF ~env.api_key THEN [err |-> "none", articles |-> <<>>]
    ELSE IF env.request \in {"transport_error", "http_error"}
    THEN [err |-> "RequestException", articles |-> <<>>]
    ELSE IF env.request = "bad_json" THEN [err |-> "JSONDecodeError", articles |-> <<>>]
    ELSE IF env.status # "ok" THEN [err |-> "RuntimeError", articles |-> <<>>]
    ELSE [err |-> "none",
          articles |-> PySlice(CollectArticles(env.articles, env.jina_api_key),
                               0, max_articles)]

\* line 541 without the slice
fetch_news_headlines_NoTruncate(env, max_articles) ==
    IF ~env.api_key THEN [err |-> "none", articles |-> <<>>]
    ELSE IF env.request \in {"transport_error", "http_error"}
    THEN [err |-> "none", articles |-> <<>>]
    ELSE IF env.request = "bad_json" THEN [err |-> "JSONDecodeError", articles |-> <<>>]
    ELSE IF env.status # "ok" THEN [err |-> "none", articles |-> <<>>]
    ELSE [err |-> "none", articles |-> CollectArticles(env.articles, env.jina_api_key)]

\* fetch_news_headlines, lines 483-541.  env is what the environment answers:
\* whether a news credential is set, how the request ends, the status and the
\* articles of the body, whether JINA_API_KEY is set.
fetch_news_headlines(env, max_articles) ==
    IF ~env.api_key THEN [err |-> "none", articles |-> <<>>]
    ELSE IF env.request \in {"transport_error", "http_error"}
    THEN [err |-> "none", articles |-> <<>>]
    ELSE IF env.request = "bad_json" THEN [err |-> "JSONDecodeError", articles |-> <<>>]
    ELSE IF env.status # "ok" THEN [err |-> "none", articles |-> <<>>]
    ELSE [err |-> "none",
          articles |-> PySlice(CollectArticles(env.articles, env.jina_api_key),
                               0, max_articles)]

\* the response was read and its status is ok: line 518 is reached
ResponseOk(env) == env.api_key /\ env.request = "ok" /\ env.status = "ok"

\* line 520 without the test of the flag
JinaAdvisory_NoFlag(env, emitted) ==
    ResponseOk(env) /\ ~env.jina_api_key

\* lines 518-523: whether the advisory is printed and the flag set, given the
\* value of JINA_WARNING_EMITTED the call finds
JinaAdvisory(env, emitted) ==
    ResponseOk(env) /\ ~env.jina_api_key /\ ~emitted

\* line 521: what the call prints about JINA_API_KEY
Advisories(env, emitted) ==
    IF JinaAdvisory(env, emitted) THEN <<"JINA_API_KEY not set">> ELSE <<>>

\* build_news_context, lines 544-567: the lines, joined
RECURSIVE ContextLines(_, _)
ContextLines(articles, idx) ==
    IF articles = <<>> THEN <<>>
    ELSE LET a == Head(articles)
         IN  <<NumText(idx), ". ">> \o a.title
             \o (IF a.source # <<>> THEN <<" - ">> \o a.source ELSE <<>>)
             \o (IF a.description # <<>>
                 THEN <<NEWLINE, "   Summary: ">> \o a.description ELSE <<>>)
             \o (IF a.url # <<>> THEN <<NEWLINE, "   URL: ">> \o a.url ELSE <<>>)
             \o (IF a.full_content # None /\ a.full_content # <<>>
                 THEN <<NEWLINE, "   FULL ARTICLE:", NEWLINE>> \o a.full_content ELSE <<>>)
             \o <<NEWLINE, NEWLINE>>
             \o ContextLines(Tail(articles), idx + 1)

\* a requests.get call
Request(kind, url) == [kind |-> kind, url |-> url]

\* lines 439-461 with the two fetches in the other order
ArticleRequests_DirectFirst(article, jina_api_key) ==
    IF article.url = <<>> THEN <<>>
    ELSE <<Request("direct", article.url)>>
         \o (IF jina_api_key /\ article.direct # "ok"
             THEN <<Request("jina", article.url)>> ELSE <<>>)

\* the requests fetch_article_fulltext issues for an article, lines 439-461: the
\* Jina request when a key is set, the direct request unless Jina gave a text
ArticleRequests(article, jina_api_key) ==
    IF article.url = <<>> THEN <<>>
    ELSE (IF jina_api_key THEN <<Request("jina", article.url)>> ELSE <<>>)
         \o (IF jina_api_key /\ article.jina = "ok" THEN <<>>
             ELSE <<Request("direct", article.url)>>)

\* lines 525-531: the requests of the loop over the articles of the response
RECURSIVE ArticlesRequests(_, _)
ArticlesRequests(raw, jina_api_key) ==
    IF raw = <<>> THEN <<>>
    ELSE (IF Strip(Head(raw).title) = <<>> THEN <<>>
          ELSE ArticleRequests(Head(raw), jina_api_key))
         \o ArticlesRequests(Tail(raw), jina_api_key)

\* lines 483-485 without the test of the credential
NewsRequests_NoKeyCheck(env) ==
    <<Request("news", <<"newsapi.org">>)>>
    \o (IF env.request = "ok" /\ env.status = "ok"
        THEN ArticlesRequests(env.articles, env.jina_api_key) ELSE <<>>)

\* the requests of one fetch_news_headlines call, lines 483-541
NewsRequests(env) ==
    IF ~env.api_key THEN <<>>
    ELSE <<Request("news", <<"newsapi.org">>)>>
         \o (IF env.request = "ok" /\ env.status = "ok"
             THEN ArticlesRequests(env.articles, env.jina_api_key) ELSE <<>>)

\* lines 562-564 with the full text left out
build_news_context_NoFullText(articles) ==
    IF articles = <<>> THEN <<>>
    ELSE Strip(<<"Use the following recent news stories as factual inspiration. ...",
                 NEWLINE, NEWLINE>>
               \o ContextLines([i \in 1..Len(articles) |->
                                  [articles[i] EXCEPT !.full_content = None]], 1))

build_news_context(articles) ==
    IF articles = <<>> THEN <<>>
    ELSE Strip(<<"Use the following recent news stories as factual inspiration. ...",
                 NEWLINE, NEWLINE>> \o ContextLines(articles, 1))

----------------------------------------------------------------------------
(* The provider outputs and the environments the model is run on *)

\* bounds of the inputs
MaxIdeas == 2
MaxRawLen == 3
MaxNews == 2

\* all sequences over S of length at most n
RECURSIVE SeqsUpTo(_, _)
SeqsUpTo(S, n) ==
    IF n = 0 THEN {<<>>}
    ELSE LET shorter == SeqsUpTo(S, n - 1)
         IN  shorter \cup {Append(q, x) : q \in {r \in shorter : Len(r) = n - 1}, x \in S}

Texts(xs) == [i \in 1..Len(xs) |-> JStr(<<xs[i]>>)]

KeyPoints == <<"k1", "k2", "k3", "k4", "k5">>
KeyPointsReordered == <<"k5", "k3", "k1", "k2", "k4">>

FullIdea(title, key_points, hashtags) ==
    JObj(<<Member(<<"title">>, JStr(title)),
           Member(<<"hook">>, JStr(<<"Stop wasting your mornings">>)),
           Member(<<"key_points">>, JArr(Texts(key_points))),
           Member(<<"cta">>, JStr(<<"Follow for more">>)),
           Member(<<"hashtags">>, JArr(Texts(hashtags))),
           Member(<<"target_audience">>, JStr(<<"remote workers">>))>>)

\* the idea of the end-to-end scenario: six fields, five key points
IdeaHack == FullIdea(<<"Hack #1">>, KeyPoints, <<"#productivity">>)
\* a second full idea that also carries a duration of its own
IdeaWithDuration ==
    JObj(FullIdea(<<"Hack #2">>, KeyPointsReordered, <<"#b", "#a">>).v
         \o <<Member(<<"duration">>, JStr(<<"99 minutes">>))>>)
\* full ideas whose title holds a fence, whose second key point holds a DEL
\* character, whose title holds braces
IdeaFenceTitle == FullIdea(<<"Use ", FENCE, " fences">>, KeyPoints, <<"#md">>)
IdeaDelPoint ==
    JObj(<<Member(<<"title">>, JStr(<<"Hack #3">>)),
           Member(<<"hook">>, JStr(<<"Stop wasting your mornings">>)),
           Member(<<"key_points">>,
                  JArr(<<JStr(<<"k1">>), JStr(<<"k", DEL, "2">>), JStr(<<"k3">>),
                         JStr(<<"k4">>), JStr(<<"k5">>)>>)),
           Member(<<"cta">>, JStr(<<"Follow for more">>)),
           Member(<<"hashtags">>, JArr(Texts(<<"#c">>))),
           Member(<<"target_audience">>, JStr(<<"remote workers">>))>>)
IdeaBraceTitle == FullIdea(<<RB, "Hack", LB>>, KeyPoints, <<"#d">>)
\* entries with fields missing
IdeaNoTitle == JObj(SubSeq(IdeaHack.v, 2, 6))
IdeaOnlyTitle == JObj(<<Member(<<"title">>, JStr(<<"Hack #4">>))>>)

IdeaEntries ==
    {IdeaHack, IdeaWithDuration, IdeaFenceTitle, IdeaDelPoint, IdeaBraceTitle,
     IdeaNoTitle, IdeaOnlyTitle, JObj(<<>>), JNum, JStr(<<"Hack #1">>)}

WithIdeas(x) == JObj(<<Member(<<"ideas">>, x)>>)

\* objects whose "ideas" is a list of at most MaxIdeas entries
ListPayloads == {WithIdeas(JArr(xs)) : xs \in SeqsUpTo(IdeaEntries, MaxIdeas)}

\* objects whose "ideas" is not a list, objects without "ideas", "ideas" given twice,
\* fields of the wrong type
OtherPayloads ==
    { WithIdeas(JStr(<<>>)), WithIdeas(JStr(<<"Hack #1">>)), WithIdeas(JNum),
      WithIdeas(JNull), WithIdeas(JObj(<<>>)), WithIdeas(IdeaHack),
      JObj(<<>>),
      JObj(<<Member(<<"title">>, JStr(<<"Hack #1">>))>>),
      JObj(<<Member(<<"items">>, JArr(<<IdeaHack>>))>>),
      JObj(<<Member(<<"ideas">>, JArr(<<IdeaHack>>)), Member(<<"ideas">>, JArr(<<>>))>>),
      WithIdeas(JArr(<<JObj(<<Member(<<"title">>, JNull),
                               Member(<<"key_points">>, JNum),
                               Member(<<"hashtags">>, JArr(<<JNum>>))>>)>>)),
      WithIdeas(JArr(<<JObj(<<Member(<<"title">>, JStr(<<FENCE>>)),
                               Member(<<"x">>, WithIdeas(JArr(<<IdeaOnlyTitle>>))),
                               Member(<<"y">>, JStr(<<FENCE>>))>>)>>)),
      WithIdeas(JArr(<<JObj(Append(SubSeq(IdeaHack.v, 1, 5),
                                    Member(<<"target_audience">>, JStr(<<FENCE>>)))),
                       IdeaHack, IdeaFenceTitle>>)) }

\* prose a provider may put around its answer
Prose ==
    { <<>>, <<"Here you go:">>, <<"see", LB>>, <<RB, "ok">>, <<LB, "x", RB>>,
      <<FENCE, "x", FENCE>>, <<CTL, NEWLINE>> }

\* the payloads that are also sent wrapped in prose and fences
WrappedPayloads ==
    { WithIdeas(JArr(<<IdeaHack>>)), WithIdeas(JArr(<<>>)),
      WithIdeas(JArr(<<IdeaWithDuration, IdeaHack>>)), JObj(<<>>),
      WithIdeas(JArr(<<IdeaFenceTitle>>)), WithIdeas(JArr(<<IdeaNoTitle>>)) }

\* an output of the provider: a payload rendered as text between pre and post,
\* inside a fence or not, or a raw text
Sent(payload, fence, pre, post) ==
    [kind |-> "payload", payload |-> payload, fence |-> fence,
     pre |-> pre, post |-> post, raw |-> <<>>]
Raw(text) ==
    [kind |-> "raw", payload |-> JNull, fence |-> "none",
     pre |-> <<>>, post |-> <<>>, raw |-> text]
NoOutput == Raw(None)

RawAlphabet == {LB, RB, "x", FENCE, JSONWORD, QUOTE}

\* an answer with control characters between its tokens and inside a string
StrayControlText ==
    <<LB, QUOTE, "ideas", QUOTE, CTL, COLON, NEWLINE, LBRACK, DEL, LB, QUOTE, "title",
      QUOTE, COLON, QUOTE, "A", DEL, QUOTE, RB, CTL, RBRACK, RB>>

\* {"ideas": []} as the spec writes it
EmptyIdeasText == <<LB, QUOTE, "ideas", QUOTE, COLON, SPACE, LBRACK, RBRACK, RB>>

ProviderOutputs ==
    {Sent(v, "none", <<>>, <<>>) : v \in ListPayloads \cup OtherPayloads}
    \cup {Sent(v, f, pre, post) :
            v \in WrappedPayloads, f \in {"none", "json", "bare"},
            pre \in Prose, post \in Prose}
    \cup {Raw(t) : t \in SeqsUpTo(RawAlphabet, MaxRawLen)
                            \cup {EmptyIdeasText, StrayControlText}}

FenceOpen(f) ==
    CASE f = "json" -> <<FENCE, JSONWORD, NEWLINE>>
      [] f = "bare" -> <<FENCE, NEWLINE>>
      [] OTHER -> <<>>
FenceClose(f) == IF f = "none" THEN <<>> ELSE <<NEWLINE, FENCE>>

\* the text of an output
Render(g) ==
    IF g.kind = "raw" THEN g.raw
    ELSE g.pre \o FenceOpen(g.fence) \o Ser(g.payload) \o FenceClose(g.fence) \o g.post

\* the outputs the provider returns in the runs of the whole pipeline
PipelineOutputs ==
    { Sent(WithIdeas(JArr(<<IdeaHack>>)), "none", <<>>, <<>>),
      Sent(WithIdeas(JArr(<<IdeaWithDuration, IdeaHack>>)), "json", <<"Here you go:">>, <<RB, "ok">>),
      Sent(WithIdeas(JArr(<<IdeaNoTitle>>)), "bare", <<>>, <<>>),
      Sent(WithIdeas(JArr(<<IdeaFenceTitle>>)), "none", <<>>, <<>>),
      Sent(WithIdeas(JArr(<<>>)), "none", <<>>, <<>>),
      Sent(JObj(<<>>), "none", <<>>, <<>>),
      Sent(WithIdeas(JNum), "none", <<>>, <<>>),
      Sent(WithIdeas(JArr(<<JStr(<<"Hack #1">>)>>)), "none", <<>>, <<>>),
      Sent(WithIdeas(JArr(<<JObj(<<Member(<<"title">>, JNull),
                                    Member(<<"key_points">>, JNum),
                                    Member(<<"hashtags">>, JArr(<<JNum>>))>>)>>)),
           "none", <<>>, <<>>),
      Raw(<<"Sorry, no ideas">>),
      Raw(<<RB, LB>>),
      Raw(<<"Here:", LB, QUOTE, "ideas", QUOTE, COLON, LBRACK, RB, "done">>) }

\* what the environment answers to fetch_news_headlines
NewsEnv(api_key, request, status, articles, jina_api_key) ==
    [api_key |-> api_key, request |-> request, status |-> status,
     articles |-> articles, jina_api_key |-> jina_api_key]
NoNewsEnv == NewsEnv(FALSE, "none", "none", <<>>, FALSE)
NewsEnvs ==
    { NewsEnv(FALSE, "ok", "ok", <<>>, FALSE),
      NewsEnv(TRUE, "transport_error", "ok", <<>>, FALSE),
      NewsEnv(TRUE, "http_error", "ok", <<>>, FALSE),
      NewsEnv(TRUE, "bad_json", "ok", <<>>, FALSE),
      NewsEnv(TRUE, "ok", "error", <<>>, FALSE) }
    \cup {NewsEnv(TRUE, "ok", "ok", as, j) :
            as \in SeqsUpTo(RawArticles, MaxNews), j \in BOOLEAN}

\* the provider argument of generate_10_scripts with what the environment holds for
\* it: whether the credential variable of the provider is set, whether its package
\* is installed
\* api_key: whether an api_key argument is given to the constructor
\* (generate_10_scripts gives none)
Config(name, api_key, env_key, sdk) ==
    [name |-> name, api_key |-> api_key, env_key |-> env_key, sdk |-> sdk]
ProviderConfigs ==
    { Config("mistral", FALSE, TRUE, TRUE),
      Config("openai", FALSE, TRUE, TRUE),
      Config("gemini", FALSE, TRUE, TRUE),
      Config("mistral", FALSE, FALSE, TRUE),
      Config("gemini", FALSE, TRUE, FALSE),
      Config("claude", FALSE, FALSE, TRUE) }

SupportedProviders == {"openai", "mistral", "gemini"}

----------------------------------------------------------------------------
(* One call of generate_10_scripts *)

\* an exception: the stage that raised it, its type, and the backend name attached
\* to it on its way to the caller ("none" when nothing was attached)
NoExc == [stage |-> "none", type |-> "none", backend |-> "none"]
Exc(stage, type) == [stage |-> stage, type |-> type, backend |-> "none"]

\* the arguments of a generate_ideas call, the prompts of a call
Args(topic, p, num_ideas, target_audience, tone, additional_context) ==
    [topic |-> topic, platform |-> p, num_ideas |-> num_ideas,
     target_audience |-> target_audience, tone |-> tone,
     additional_context |-> additional_context]
NoArgs == Args(None, "none", 0, None, None, None)
Prompts(system_prompt, user_prompt) ==
    [system_prompt |-> system_prompt, user_prompt |-> user_prompt]
NoPrompts == Prompts(None, None)
NoCall == [args |-> NoArgs, prompts |-> NoPrompts]

Running == [status |-> "RUNNING", error |-> NoExc, exit |-> "none"]
NoGenerator == [client |-> "none", last_system_prompt |-> None, last_user_prompt |-> None]
NotSaved == [written |-> FALSE, n_scripts |-> 0, system_prompt |-> None,
             user_prompt |-> None, news_context |-> None]

Topic == <<"5 productivity hacks for remote workers">>
Tone == <<"engaging and authentic">>
\* num_ideas of generate_10_scripts
NumIdeas == 1

\* str.lower() on the provider names of the model
Lower(name) == IF name = "Mistral" THEN "mistral" ELSE name

\* lines 247-254 without the final else: a name that is not supported is let
\* through when an api_key argument is given
VideoIdeaGenerator_init_KeyOnly(cfg, api_key_arg) ==
    IF ~api_key_arg /\ Lower(cfg.name) \notin SupportedProviders
    THEN "ValueError: Unsupported provider"
    ELSE IF ~api_key_arg /\ ~cfg.env_key THEN "ValueError: API key must be provided"
    ELSE IF ~cfg.sdk THEN "ImportError"
    ELSE "none"

\* VideoIdeaGenerator.__init__, lines 223-258: the error raised, or "none"
VideoIdeaGenerator_init(cfg, api_key_arg) ==
    IF ~api_key_arg /\ Lower(cfg.name) \notin SupportedProviders
    THEN "ValueError: Unsupported provider"
    ELSE IF ~api_key_arg /\ ~cfg.env_key THEN "ValueError: API key must be provided"
    ELSE IF Lower(cfg.name) \notin SupportedProviders THEN "ValueError: Unsupported provider"
    ELSE IF ~cfg.sdk THEN "ImportError"
    ELSE "none"

\* format_script, lines 570-604: iterating key_points and joining hashtags raise
\* TypeError on what is not iterable or holds something that is not a string
format_script(idea, index) ==
    LET points == idea.key_points
        tags == idea.hashtags
    IN  IF ~Iterable(points) \/ ~Iterable(tags)
        THEN [err |-> "TypeError", script |-> <<>>]
        ELSE IF \E i \in 1..Len(IterItems(tags)) : IterItems(tags)[i].t # "str"
        THEN [err |-> "TypeError", script |-> <<>>]
        ELSE [err |-> "none",
              script |-> <<[index |-> index, title |-> idea.title, hook |-> idea.hook,
                            points |-> IterItems(points), cta |-> idea.cta,
                            hashtags |-> IterItems(tags)]>>]

\* the arguments of the calls of generate_10_scripts the model runs: every
\* provider and platform without grounding, and with grounding a provider that is
\* configured and one that is not, a platform that exists and one that does not,
\* every news_max_articles up to the bound
Call(use, save, p, cfg, n) ==
    [use_news |-> use, save_files |-> save, platform |-> p, provider |-> cfg,
     news_max_articles |-> n]
Calls ==
    {Call(FALSE, save, p, cfg, 1) :
        save \in BOOLEAN, p \in SocialPlatform \cup {"twitter"}, cfg \in ProviderConfigs}
    \cup {Call(TRUE, TRUE, p, cfg, n) :
            p \in {"tiktok", "twitter"},
            cfg \in {Config("mistral", FALSE, e, TRUE) : e \in BOOLEAN},
            n \in 1..MaxNews}

Enter(stage) == stages' = Append(stages, stage)

Raise(stage, type) == /\ exc' = Exc(stage, type)
                      /\ pc' = "raised"

Init ==
    /\ pc = "start"
    /\ \E a \in Calls :
         /\ use_news = a.use_news
         /\ save_files = a.save_files
         /\ platform = a.platform
         /\ provider = a.provider
         /\ news_max_articles = a.news_max_articles
    /\ news_articles = <<>>
    /\ news_context = None
    /\ generator = NoGenerator
    /\ content = None
    /\ data = JNull
    /\ ideas = <<>>
    /\ scripts = <<>>
    /\ saved = NotSaved
    /\ exc = NoExc
    /\ outcome = Running
    /\ stages = <<>>
    /\ provider_calls = 0
    /\ given = NoOutput
    /\ news_env = NoNewsEnv
    /\ requests_log = <<>>
    /\ args = NoArgs
    /\ prompt = NoPrompts
    /\ sent = NoPrompts
    /\ earlier = NoCall
    /\ JINA_WARNING_EMITTED = FALSE
    /\ printed = <<>>
    /\ reqs = <<>>
    /\ generators = <<>>
    /\ units = <<>>
    /\ results = <<>>
    /\ batch_saved = <<>>

\* lines 738-754: use_news, fetch_news_headlines
FetchNews ==
    /\ pc = "start" /\ use_news
    /\ \E env \in NewsEnvs :
         LET r == fetch_news_headlines(env, news_max_articles)
         IN  /\ news_env' = env
             /\ requests_log' = requests_log \o NewsRequests(env)
             /\ JINA_WARNING_EMITTED' =
                    (JINA_WARNING_EMITTED \/ JinaAdvisory(env, JINA_WARNING_EMITTED))
             /\ printed' = printed \o Advisories(env, JINA_WARNING_EMITTED)
             /\ IF r.err = "none"
                THEN /\ news_articles' = r.articles
                     /\ pc' = "news_context"
                     /\ exc' = exc
                ELSE /\ news_articles' = news_articles
                     /\ Raise("GROUNDING", r.err)
    /\ Enter("GROUNDING")
    /\ UNCHANGED <<reqs, generators, units, results, batch_saved,
                   earlier, args, prompt, sent, news_max_articles, use_news, save_files, platform, provider, news_context, generator,
                   content, data, ideas, scripts, saved, outcome, provider_calls, given>>

\* line 738 with the test of use_news left out: the headlines are never fetched
SkipNews_Always ==
    /\ pc = "start"
    /\ pc' = "news_context"
    /\ UNCHANGED <<JINA_WARNING_EMITTED, printed, reqs, generators, units, results, batch_saved,
                   earlier, args, prompt, sent, news_max_articles, news_env, requests_log, use_news, save_files, platform, provider, news_articles,
                   news_context, generator, content, data, ideas, scripts, saved,
                   exc, outcome, stages, provider_calls, given>>

\* line 738 with use_news false
SkipNews ==
    /\ pc = "start" /\ ~use_news
    /\ pc' = "news_context"
    /\ UNCHANGED <<JINA_WARNING_EMITTED, printed, reqs, generators, units, results, batch_saved,
                   earlier, args, prompt, sent, news_max_articles, news_env, requests_log, use_news, save_files, platform, provider, news_articles,
                   news_context, generator, content, data, ideas, scripts, saved,
                   exc, outcome, stages, provider_calls, given>>

\* lines 756-757 and 546-547 without the two tests of the empty list: the header
\* of the context is built also when there is no article
BuildNewsContext_Unconditional ==
    /\ pc = "news_context"
    /\ news_context' = Strip(<<"Use the following recent news stories as factual inspiration. ...",
                               NEWLINE, NEWLINE>> \o ContextLines(news_articles, 1))
    /\ pc' = "init_generator"
    /\ UNCHANGED <<JINA_WARNING_EMITTED, printed, reqs, generators, units, results,
                   batch_saved, earlier, args, prompt, sent, news_max_articles,
                   news_env, requests_log, use_news, save_files, platform, provider,
                   news_articles, generator, content, data, ideas, scripts, saved,
                   exc, outcome, stages, provider_calls, given>>

\* lines 756-759
BuildNewsContext ==
    /\ pc = "news_context"
    /\ news_context' = IF news_articles # <<>> THEN build_news_context(news_articles)
                       ELSE None
    /\ pc' = "init_generator"
    /\ UNCHANGED <<JINA_WARNING_EMITTED, printed, reqs, generators, units, results, batch_saved,
                   earlier, args, prompt, sent, news_max_articles, news_env, requests_log, use_news, save_files, platform, provider, news_articles, generator,
                   content, data, ideas, scripts, saved, exc, outcome, stages,
                   provider_calls, given>>

\* lines 762-763: VideoIdeaGenerator(provider=provider)
InitGenerator ==
    /\ pc = "init_generator"
    /\ LET err == VideoIdeaGenerator_init(provider, provider.api_key)
       IN  IF err = "none"
           THEN /\ generator' = [client |-> Lower(provider.name),
                                 last_system_prompt |-> None,
                                 last_user_prompt |-> None]
                /\ pc' = "constructed"
                /\ exc' = exc
           ELSE /\ generator' = generator
                /\ Raise("INIT_PROVIDER", err)
    /\ Enter("INIT_PROVIDER")
    /\ UNCHANGED <<JINA_WARNING_EMITTED, printed, reqs, generators, units, results, batch_saved,
                   earlier, args, prompt, sent, news_max_articles, news_env, requests_log, use_news, save_files, platform, provider, news_articles,
                   news_context, content, data, ideas, scripts, saved, outcome,
                   provider_calls, given>>

\* line 773: SocialPlatform(platform), and the arguments generate_ideas is called
\* with at lines 779-784
PlatformEnum ==
    /\ pc = "constructed"
    /\ IF platform \in SocialPlatform
       THEN /\ pc' = "build_prompt"
            /\ exc' = exc
            /\ args' = Args(Topic, platform, NumIdeas, None, Tone, news_context)
       ELSE /\ Raise("PLATFORM", "ValueError: not a valid SocialPlatform")
            /\ args' = args
    /\ UNCHANGED <<JINA_WARNING_EMITTED, printed, reqs, generators, units, results, batch_saved,
                   earlier, prompt, sent, news_max_articles, news_env, requests_log, use_news, save_files, platform, provider, news_articles,
                   news_context, generator, content, data, ideas, scripts, saved,
                   outcome, stages, provider_calls, given>>

\* lines 269-277 without the assignments of lines 276-277
BuildPrompt_NoRecord ==
    /\ pc = "build_prompt"
    /\ prompt' = Prompts(SystemPrompt,
                         _build_prompt(args.topic, args.platform, args.num_ideas,
                                       args.target_audience, args.tone,
                                       args.additional_context))
    /\ pc' = "call_provider"
    /\ Enter("BUILDING_PROMPT")
    /\ UNCHANGED <<JINA_WARNING_EMITTED, printed, reqs, generators, units, results, batch_saved,
                   earlier, args, sent, news_max_articles, news_env, requests_log,
                   use_news, save_files, platform, provider, news_articles,
                   news_context, content, data, ideas, scripts, saved, outcome,
                   provider_calls, given, generator, exc>>

\* generate_ideas, lines 269-277: _build_prompt, then the last_*_prompt fields
BuildPrompt ==
    /\ pc = "build_prompt"
    /\ IF _get_platform_specs(args.platform).err = "none"
       THEN /\ prompt' = Prompts(SystemPrompt,
                                 _build_prompt(args.topic, args.platform, args.num_ideas,
                                               args.target_audience, args.tone,
                                               args.additional_context))
            /\ generator' = [generator EXCEPT
                               !.last_system_prompt = prompt'.system_prompt,
                               !.last_user_prompt = prompt'.user_prompt]
            /\ pc' = "call_provider"
            /\ exc' = exc
       ELSE /\ generator' = generator
            /\ prompt' = prompt
            /\ Raise("BUILDING_PROMPT", _get_platform_specs(args.platform).err)
    /\ Enter("BUILDING_PROMPT")
    /\ UNCHANGED <<JINA_WARNING_EMITTED, printed, reqs, generators, units, results, batch_saved,
                   earlier, args, sent, news_max_articles, news_env, requests_log, use_news, save_files, platform, provider, news_articles,
                   news_context, content, data, ideas, scripts, saved, outcome,
                   provider_calls, given>>

\* generate_ideas, lines 278-285: one client.generate call, which returns a text
\* or raises
CallProvider ==
    /\ pc = "call_provider"
    /\ provider_calls' = provider_calls + 1
    /\ sent' = prompt
    /\ \E out \in PipelineOutputs \cup {NoOutput} :
         IF out = NoOutput
         THEN /\ Raise("CALLING_PROVIDER", "ProviderError")
              /\ UNCHANGED <<content, given>>
         ELSE /\ content' = Render(out)
              /\ given' = out
              /\ pc' = "parse"
              /\ exc' = exc
    /\ Enter("CALLING_PROVIDER")
    /\ UNCHANGED <<JINA_WARNING_EMITTED, printed, reqs, generators, units, results, batch_saved,
                   earlier, args, prompt, news_max_articles, news_env, requests_log, use_news, save_files, platform, provider, news_articles,
                   news_context, generator, data, ideas, scripts, saved, outcome>>

\* generate_ideas, line 286: _parse_response(content, platform)
ParseResponse ==
    /\ pc = "parse"
    /\ LET r == _parse_response(content, args.platform)
       IN  /\ data' = r.data
           /\ IF r.err = "none"
              THEN /\ ideas' = r.ideas
                   /\ pc' = "format"
                   /\ exc' = exc
              ELSE /\ ideas' = ideas
                   /\ Raise("PARSING", r.err)
    /\ Enter("PARSING")
    /\ UNCHANGED <<JINA_WARNING_EMITTED, printed, reqs, generators, units, results, batch_saved,
                   earlier, args, prompt, sent, news_max_articles, news_env, requests_log, use_news, save_files, platform, provider, news_articles,
                   news_context, generator, content, scripts, saved, outcome,
                   provider_calls, given>>

\* lines 790-796: format_script for each idea
FormatScripts ==
    /\ pc = "format"
    /\ LET formatted == [i \in 1..Len(ideas) |-> format_script(ideas[i], i)]
       IN  IF \A i \in 1..Len(ideas) : formatted[i].err = "none"
           THEN /\ scripts' = [i \in 1..Len(ideas) |-> formatted[i].script[1]]
                /\ pc' = "save"
                /\ exc' = exc
           ELSE /\ scripts' = scripts
                /\ Raise("FORMATTING", "TypeError")
    /\ Enter("FORMATTING")
    /\ UNCHANGED <<JINA_WARNING_EMITTED, printed, reqs, generators, units, results, batch_saved,
                   earlier, args, prompt, sent, news_max_articles, news_env, requests_log, use_news, save_files, platform, provider, news_articles,
                   news_context, generator, content, data, ideas, saved, outcome,
                   provider_calls, given>>

\* lines 799-823: save_scripts when save_files, then the return
SaveScripts ==
    /\ pc = "save"
    /\ saved' = IF save_files
                THEN [written |-> TRUE, n_scripts |-> Len(scripts),
                      system_prompt |-> generator.last_system_prompt,
                      user_prompt |-> generator.last_user_prompt,
                      news_context |-> news_context]
                ELSE saved
    /\ pc' = "done"
    /\ outcome' = [status |-> "DONE", error |-> NoExc, exit |-> "return"]
    /\ Enter("DONE")
    /\ UNCHANGED <<JINA_WARNING_EMITTED, printed, reqs, generators, units, results, batch_saved,
                   earlier, args, prompt, sent, news_max_articles, news_env, requests_log, use_news, save_files, platform, provider, news_articles,
                   news_context, generator, content, data, ideas, scripts, exc,
                   provider_calls, given>>

\* the end of a failed call: the report of the error and the exit
Failed(how) ==
    /\ pc' = "failed"
    /\ outcome' = [status |-> "FAILED", error |-> exc, exit |-> how]
    /\ Enter("FAILED")
    /\ UNCHANGED <<JINA_WARNING_EMITTED, printed, reqs, generators, units, results, batch_saved,
                   earlier, args, prompt, sent, news_max_articles, news_env, requests_log, use_news, save_files, platform, provider, news_articles,
                   news_context, generator, content, data, ideas, scripts, saved,
                   exc, provider_calls, given>>

\* lines 764-770: except Exception around the construction, sys.exit(1)
ExceptInit ==
    /\ pc = "raised" /\ exc.stage = "INIT_PROVIDER"
    /\ Failed("SystemExit(1)")

\* lines 785-787 with the error swallowed: the call goes on to the formatting
ExceptGenerate_Swallow ==
    /\ pc = "raised" /\ exc.stage \in {"BUILDING_PROMPT", "CALLING_PROVIDER", "PARSING"}
    /\ pc' = "format"
    /\ UNCHANGED <<JINA_WARNING_EMITTED, printed, reqs, generators, units, results, batch_saved,
                   earlier, args, prompt, sent, news_max_articles, news_env, requests_log, use_news, save_files, platform, provider, news_articles,
                   news_context, generator, content, data, ideas, scripts, saved,
                   exc, outcome, stages, provider_calls, given>>

\* lines 785-787 with a retry: the provider is called again after a failure
ExceptGenerate_Retry ==
    /\ pc = "raised" /\ exc.stage \in {"BUILDING_PROMPT", "CALLING_PROVIDER", "PARSING"}
    /\ pc' = "call_provider"
    /\ exc' = NoExc
    /\ UNCHANGED <<JINA_WARNING_EMITTED, printed, reqs, generators, units, results, batch_saved,
                   earlier, args, prompt, sent, news_max_articles, news_env, requests_log, use_news, save_files, platform, provider, news_articles,
                   news_context, generator, content, data, ideas, scripts, saved,
                   outcome, stages, provider_calls, given>>

\* lines 785-787: except Exception around generate_ideas, sys.exit(1)
ExceptGenerate ==
    /\ pc = "raised" /\ exc.stage \in {"BUILDING_PROMPT", "CALLING_PROVIDER", "PARSING"}
    /\ Failed("SystemExit(1)")

\* an exception raised outside the two try blocks leaves generate_10_scripts
Uncaught ==
    /\ pc = "raised" /\ exc.stage \in {"GROUNDING", "PLATFORM", "FORMATTING"}
    /\ Failed("uncaught")

Next ==
    \/ FetchNews
    \/ SkipNews
    \/ BuildNewsContext
    \/ InitGenerator
    \/ PlatformEnum
    \/ BuildPrompt
    \/ CallProvider
    \/ ParseResponse
    \/ FormatScripts
    \/ SaveScripts
    \/ ExceptInit
    \/ ExceptGenerate
    \/ Uncaught

Spec == Init /\ [][Next]_vars

----------------------------------------------------------------------------
(* The parser alone: generate_ideas has built its prompt and the provider   *)
(* has returned some output; the only step is the parsing of that output.  *)

ParseInit ==
    /\ pc = "parse"
    /\ use_news = FALSE
    /\ save_files = FALSE
    /\ platform \in SocialPlatform
    /\ provider = Config("mistral", FALSE, TRUE, TRUE)
    /\ news_articles = <<>>
    /\ news_context = None
    /\ args = Args(Topic, platform, NumIdeas, None, Tone, None)
    /\ prompt = Prompts(SystemPrompt,
                        _build_prompt(Topic, platform, NumIdeas, None, Tone, None))
    /\ sent = prompt
    /\ earlier = NoCall
    /\ generator = [client |-> "mistral",
                    last_system_prompt |-> prompt.system_prompt,
                    last_user_prompt |-> prompt.user_prompt]
    /\ given \in ProviderOutputs
    /\ content = Render(given)
    /\ data = JNull
    /\ ideas = <<>>
    /\ scripts = <<>>
    /\ saved = NotSaved
    /\ exc = NoExc
    /\ outcome = Running
    /\ stages = <<"INIT_PROVIDER", "BUILDING_PROMPT", "CALLING_PROVIDER">>
    /\ provider_calls = 1
    /\ news_max_articles = 1
    /\ news_env = NoNewsEnv
    /\ requests_log = <<>>
    /\ JINA_WARNING_EMITTED = FALSE
    /\ printed = <<>>
    /\ reqs = <<>>
    /\ generators = <<>>
    /\ units = <<>>
    /\ results = <<>>
    /\ batch_saved = <<>>

ParseNext == ParseResponse

ParseSpec == ParseInit /\ [][ParseNext]_vars

----------------------------------------------------------------------------
(* A VideoIdeaGenerator used directly: generators are constructed and      *)
(* generate_ideas is called on them several times, with arguments of the   *)
(* caller.  Here stages, content, data, ideas and given belong to the      *)
(* generate_ideas call in progress, provider_calls counts the              *)
(* client.generate calls of the whole run.                                 *)

\* bound on the generate_ideas calls of a run
MaxCalls == 2

Topic2 == <<"Why sleep matters">>
NewsText == <<"Use the following recent news stories ...">>

\* the constructor arguments and environments of the run
GenConfigs ==
    {Config("mistral", k, e, TRUE) : k, e \in BOOLEAN}
    \cup {Config("claude", k, FALSE, TRUE) : k \in BOOLEAN}
    \cup {Config("Mistral", FALSE, TRUE, TRUE), Config("gemini", TRUE, FALSE, FALSE)}

\* the arguments of the generate_ideas calls of the run
GenArgs ==
    {Args(t, p, NumIdeas, None, Tone, c) :
        t \in {Topic, Topic2}, p \in {"tiktok", "instagram_reels"}, c \in {None, NewsText}}

\* no generate_ideas call is in progress: a generator was constructed, or its
\* last call has returned or has raised
Idle ==
    \/ pc \in {"constructed", "format"}
    \/ pc = "raised" /\ exc.stage \in {"CALLING_PROVIDER", "PARSING"}

\* what may be remembered of the calls made so far
Remembered ==
    {earlier} \cup (IF prompt # NoPrompts
                    THEN {[args |-> args, prompts |-> prompt]} ELSE {})

GenInit ==
    /\ pc = "init_generator"
    /\ provider \in GenConfigs
    /\ use_news = FALSE
    /\ save_files = FALSE
    /\ platform = "tiktok"
    /\ news_articles = <<>>
    /\ news_context = None
    /\ news_max_articles = 1
    /\ news_env = NoNewsEnv
    /\ requests_log = <<>>
    /\ generator = NoGenerator
    /\ content = None
    /\ data = JNull
    /\ ideas = <<>>
    /\ scripts = <<>>
    /\ saved = NotSaved
    /\ exc = NoExc
    /\ outcome = Running
    /\ stages = <<>>
    /\ provider_calls = 0
    /\ given = NoOutput
    /\ args = NoArgs
    /\ prompt = NoPrompts
    /\ sent = NoPrompts
    /\ earlier = NoCall
    /\ JINA_WARNING_EMITTED = FALSE
    /\ printed = <<>>
    /\ reqs = <<>>
    /\ generators = <<>>
    /\ units = <<>>
    /\ results = <<>>
    /\ batch_saved = <<>>

\* generate_ideas, lines 260-268: a call with the arguments of the caller; the
\* locals of the call start empty
GenerateIdeas ==
    /\ Idle
    /\ provider_calls < MaxCalls
    /\ args' \in GenArgs
    /\ earlier' \in Remembered
    /\ pc' = "build_prompt"
    /\ exc' = NoExc
    /\ stages' = <<>>
    /\ prompt' = NoPrompts
    /\ sent' = NoPrompts
    /\ content' = None
    /\ data' = JNull
    /\ ideas' = <<>>
    /\ given' = NoOutput
    /\ UNCHANGED <<JINA_WARNING_EMITTED, printed, reqs, generators, units, results, batch_saved,
                   news_max_articles, news_env, requests_log, use_news, save_files,
                   platform, provider, news_articles, news_context, generator,
                   scripts, saved, outcome, provider_calls>>

\* VideoIdeaGenerator(...), lines 217-222: the caller constructs another generator
NewGenerator ==
    /\ Idle \/ (pc = "raised" /\ exc.stage = "INIT_PROVIDER")
    /\ provider_calls < MaxCalls
    /\ provider' \in GenConfigs
    /\ generator' = NoGenerator
    /\ earlier' \in Remembered
    /\ pc' = "init_generator"
    /\ exc' = NoExc
    /\ stages' = <<>>
    /\ args' = NoArgs
    /\ prompt' = NoPrompts
    /\ sent' = NoPrompts
    /\ content' = None
    /\ data' = JNull
    /\ ideas' = <<>>
    /\ given' = NoOutput
    /\ UNCHANGED <<JINA_WARNING_EMITTED, printed, reqs, generators, units, results, batch_saved,
                   news_max_articles, news_env, requests_log, use_news, save_files,
                   platform, news_articles, news_context, scripts, saved, outcome,
                   provider_calls>>

GenNext ==
    \/ InitGenerator
    \/ GenerateIdeas
    \/ BuildPrompt
    \/ CallProvider
    \/ ParseResponse
    \/ NewGenerator

GenSpec == GenInit /\ [][GenNext]_vars

----------------------------------------------------------------------------
(* Two generation requests in one process, run by threads an external      *)
(* collaborator starts.  A request fetches the headlines, calls            *)
(* generate_ideas on its generator and reads the prompts back from the     *)
(* generator, as generate_10_scripts does; the two requests use the same   *)
(* generator or one each.  A step is what a thread does between two points *)
(* where the interpreter may switch threads (a print, a network call).     *)

\* the variables of one generate_10_scripts call, where no such call is modelled
pipeline_vars ==
    <<use_news, save_files, platform, provider, news_context, generator, content,
      data, ideas, scripts, saved, outcome, provider_calls, given, args, prompt,
      sent, earlier>>

\* their values when no generate_10_scripts call has started
NoPipeline ==
    /\ use_news = FALSE
    /\ save_files = FALSE
    /\ platform = "tiktok"
    /\ provider = Config("mistral", FALSE, TRUE, TRUE)
    /\ news_context = None
    /\ generator = NoGenerator
    /\ content = None
    /\ data = JNull
    /\ ideas = <<>>
    /\ scripts = <<>>
    /\ saved = NotSaved
    /\ outcome = Running
    /\ provider_calls = 0
    /\ given = NoOutput
    /\ args = NoArgs
    /\ prompt = NoPrompts
    /\ sent = NoPrompts
    /\ earlier = NoCall

Requests == 1..2

\* the arguments of the two requests
ConcArgs ==
    {Args(t, "tiktok", NumIdeas, None, Tone, None) : t \in {Topic, Topic2}}

\* what the provider answers to a request
ConcOutputs ==
    {Sent(WithIdeas(JArr(<<IdeaHack>>)), "none", <<>>, <<>>),
     Sent(WithIdeas(JArr(<<IdeaWithDuration, IdeaHack>>)), "json", <<>>, <<>>),
     Raw(<<"Sorry, no ideas">>)}

\* a request that has not started: the generator it uses and its arguments
Req(gen, a) ==
    [pc |-> "check_flag", gen |-> gen, args |-> a, warn |-> FALSE, printed |-> 0,
     prompts |-> NoPrompts, given |-> NoOutput, returned |-> Raised("none", JNull),
     recorded |-> NoPrompts]

ConcInit ==
    /\ pc = "concurrent"
    /\ NoPipeline
    /\ news_articles = <<>>
    /\ news_max_articles = 1
    /\ \E j \in BOOLEAN : news_env = NewsEnv(TRUE, "ok", "ok", <<>>, j)
    /\ requests_log = <<>>
    /\ exc = NoExc
    /\ stages = <<>>
    /\ JINA_WARNING_EMITTED = FALSE
    /\ printed = <<>>
    /\ \E g \in Requests, a1, a2 \in ConcArgs, o1, o2 \in ConcOutputs :
         reqs = <<[Req(1, a1) EXCEPT !.given = o1], [Req(g, a2) EXCEPT !.given = o2]>>
    /\ generators = [g \in Requests |-> NoPrompts]
    /\ units = <<>>
    /\ results = <<>>
    /\ batch_saved = <<>>

\* what the steps of the requests leave alone
ConcRest ==
    UNCHANGED <<pc, pipeline_vars, news_articles, news_max_articles, news_env,
                requests_log, exc, stages, units, results, batch_saved>>

\* fetch_news_headlines, lines 519-520: the environment and the flag are read
CheckFlag ==
    /\ ConcRest
    /\ \E r \in Requests :
         /\ reqs[r].pc = "check_flag"
         /\ reqs' = [reqs EXCEPT ![r].pc = "emit",
                                 ![r].warn = JinaAdvisory(news_env, JINA_WARNING_EMITTED)]
         /\ UNCHANGED <<JINA_WARNING_EMITTED, printed, generators>>

\* lines 521-522 under the test of line 520: the advisory is printed, the flag set
EmitAdvisory ==
    /\ ConcRest
    /\ \E r \in Requests :
         /\ reqs[r].pc = "emit"
         /\ IF reqs[r].warn
            THEN /\ printed' = Append(printed, "JINA_API_KEY not set")
                 /\ JINA_WARNING_EMITTED' = TRUE
                 /\ reqs' = [reqs EXCEPT ![r].pc = "build_prompt",
                                         ![r].printed = reqs[r].printed + 1]
            ELSE /\ reqs' = [reqs EXCEPT ![r].pc = "build_prompt"]
                 /\ UNCHANGED <<printed, JINA_WARNING_EMITTED>>
         /\ UNCHANGED generators

\* generate_ideas, lines 269-277: the prompts are built and stored in the generator
RecordPrompts ==
    /\ ConcRest
    /\ \E r \in Requests :
         /\ reqs[r].pc = "build_prompt"
         /\ LET a == reqs[r].args
                built == Prompts(SystemPrompt,
                                 _build_prompt(a.topic, a.platform, a.num_ideas,
                                               a.target_audience, a.tone,
                                               a.additional_context))
            IN  /\ reqs' = [reqs EXCEPT ![r].pc = "call_provider", ![r].prompts = built]
                /\ generators' = [generators EXCEPT ![reqs[r].gen] = built]
         /\ UNCHANGED <<JINA_WARNING_EMITTED, printed>>

\* generate_ideas, lines 279-286: client.generate with the locals, _parse_response
Generate ==
    /\ ConcRest
    /\ \E r \in Requests :
         /\ reqs[r].pc = "call_provider"
         /\ reqs' = [reqs EXCEPT
                       ![r].pc = "read_back",
                       ![r].returned = _parse_response(Render(reqs[r].given),
                                                       reqs[r].args.platform)]
         /\ UNCHANGED <<JINA_WARNING_EMITTED, printed, generators>>

\* generate_10_scripts, lines 799-800: the caller reads the prompts of its call
\* from the generator
ReadBack ==
    /\ ConcRest
    /\ \E r \in Requests :
         /\ reqs[r].pc = "read_back"
         /\ reqs' = [reqs EXCEPT ![r].pc = "done",
                                 ![r].recorded = generators[reqs[r].gen]]
         /\ UNCHANGED <<JINA_WARNING_EMITTED, printed, generators>>

ConcNext ==
    \/ CheckFlag
    \/ EmitAdvisory
    \/ RecordPrompts
    \/ Generate
    \/ ReadBack

ConcSpec == ConcInit /\ [][ConcNext]_vars

----------------------------------------------------------------------------
(* Batch generation, batch_generator.py: generate_for_all_topics and       *)
(* generate_for_topic_across_platforms run generate_ideas of               *)
(* video_idea_generator.py once for each topic or platform.  A unit is one *)
(* topic or platform with the output the provider gives for it.            *)

\* bound on the topics or platforms of a batch
MaxUnits == 2

\* video_idea_generator.py, generate_ideas, lines 260-273: every exception of the
\* provider call and of the parser is raised again as an Exception that names
\* the provider
vig_generate_ideas(out, p) ==
    LET r == vig_parse_response(Render(out), p)
    IN  IF out = NoOutput \/ r.err # "none"
        THEN Raised("Exception: Error generating ideas with", JNull)
        ELSE r

\* the names of the topics of config.yaml and of the platforms of a batch
UnitNames(mode) ==
    IF mode = "all_topics" THEN <<"AI tools", "Fitness", "Cooking">>
    ELSE <<"tiktok", "twitter", "instagram_reels">>

\* what the provider answers for a unit, NoOutput when the call raises
BatchOutputs ==
    {Sent(WithIdeas(JArr(<<IdeaHack>>)), "none", <<>>, <<>>),
     Sent(WithIdeas(JArr(<<IdeaWithDuration, IdeaHack>>)), "json", <<>>, <<>>),
     Raw(<<"Sorry, no ideas">>),
     NoOutput}

Unit(mode, i, out) ==
    [name |-> UnitNames(mode)[i],
     platform |-> IF mode = "all_topics" THEN "tiktok" ELSE UnitNames(mode)[i],
     given |-> out]

BatchInit ==
    /\ pc \in {"all_topics", "across_platforms", "across_platforms_unknown_topic"}
    /\ NoPipeline
    /\ news_articles = <<>>
    /\ news_max_articles = 1
    /\ news_env = NoNewsEnv
    /\ requests_log = <<>>
    /\ exc = NoExc
    /\ stages = <<>>
    /\ JINA_WARNING_EMITTED = FALSE
    /\ printed = <<>>
    /\ reqs = <<>>
    /\ generators = <<>>
    /\ \E n \in 1..MaxUnits : \E outs \in [1..n -> BatchOutputs] :
         units = [i \in 1..n |->
                    Unit(IF pc = "all_topics" THEN pc ELSE "across_platforms",
                         i, outs[i])]
    /\ results = <<>>
    /\ batch_saved = <<>>

\* what the steps of a batch leave alone
BatchRest ==
    UNCHANGED <<use_news, save_files, platform, provider, news_context, generator,
                data, scripts, saved, outcome, args, prompt, sent, earlier,
                news_articles, news_max_articles, news_env, requests_log,
                JINA_WARNING_EMITTED, printed, reqs, generators, units>>

\* generate_for_topic_across_platforms, lines 96-98: get_topic_by_name
LookupTopic ==
    /\ pc \in {"all_topics", "across_platforms", "across_platforms_unknown_topic"}
    /\ IF pc = "across_platforms_unknown_topic"
       THEN Raise("LOOKUP_TOPIC", "ValueError: Topic not found")
       ELSE pc' = "loop" /\ exc' = exc
    /\ Enter("LOOKUP_TOPIC")
    /\ BatchRest
    /\ UNCHANGED <<content, given, ideas, provider_calls, results, batch_saved>>

\* lines 56-69 and 101-116: one turn of the loop; the exception of generate_ideas
\* is not caught, it ends the method and the local results with it
GenerateUnit ==
    /\ pc = "loop"
    /\ Len(results) < Len(units)
    /\ LET unit == units[Len(results) + 1]
           r == vig_generate_ideas(unit.given, unit.platform)
       IN  /\ given' = unit.given
           /\ content' = IF unit.given = NoOutput THEN None ELSE Render(unit.given)
           /\ provider_calls' = provider_calls + 1
           /\ IF r.err = "none"
              THEN /\ ideas' = r.ideas
                   /\ results' = Append(results, [name |-> unit.name, ideas |-> r.ideas])
                   /\ pc' = "loop"
                   /\ exc' = exc
              ELSE /\ ideas' = <<>>
                   /\ results' = <<>>
                   /\ Raise(unit.name, r.err)
           /\ Enter(unit.name)
    /\ BatchRest
    /\ UNCHANGED batch_saved

\* lines 71-74 and 118-121: the results are written and returned
SaveBatch ==
    /\ pc = "loop"
    /\ Len(results) = Len(units)
    /\ batch_saved' = results
    /\ pc' = "returned"
    /\ Enter("SAVING_BATCH")
    /\ BatchRest
    /\ UNCHANGED <<content, given, ideas, provider_calls, results, exc>>

BatchNext ==
    \/ LookupTopic
    \/ GenerateUnit
    \/ SaveBatch

BatchSpec == BatchInit /\ [][BatchNext]_vars

----------------------------------------------------------------------------
(* fetch_news_headlines called several times in one process, each time     *)
(* with what the environment answers then.  Here news_env, requests_log    *)
(* and news_articles belong to the last call, and stages lists the calls   *)
(* and, after the call that printed it, the advisory.                      *)

\* bound on the fetch_news_headlines calls of a process
MaxFetches == 2

\* the number of calls made so far
Fetches == Cardinality({i \in 1..Len(stages) : stages[i] = "GROUNDING"})

NewsInit ==
    /\ pc = "idle"
    /\ NoPipeline
    /\ news_articles = <<>>
    /\ news_max_articles = 1
    /\ news_env = NoNewsEnv
    /\ requests_log = <<>>
    /\ exc = NoExc
    /\ stages = <<>>
    /\ JINA_WARNING_EMITTED = FALSE
    /\ printed = <<>>
    /\ reqs = <<>>
    /\ generators = <<>>
    /\ units = <<>>
    /\ results = <<>>
    /\ batch_saved = <<>>

\* lines 472-541 with the slice of line 541 applied before the loop of line 525:
\* only the first max_articles titled articles are fetched
FetchHeadlines_TruncateFirst ==
    /\ pc = "idle"
    /\ Fetches < MaxFetches
    /\ \E env \in NewsEnvs, n \in 1..MaxNews :
         LET r == fetch_news_headlines(env, n)
             titled == SelectSeq(env.articles, LAMBDA a : Strip(a.title) # <<>>)
         IN  /\ news_env' = env
             /\ news_max_articles' = n
             /\ requests_log' =
                    NewsRequests([env EXCEPT !.articles = PySlice(titled, 0, n)])
             /\ JINA_WARNING_EMITTED' =
                    (JINA_WARNING_EMITTED \/ JinaAdvisory(env, JINA_WARNING_EMITTED))
             /\ printed' = printed \o Advisories(env, JINA_WARNING_EMITTED)
             /\ stages' = stages \o <<"GROUNDING">>
                            \o (IF JinaAdvisory(env, JINA_WARNING_EMITTED)
                                THEN <<"ADVISORY">> ELSE <<>>)
             /\ news_articles' = r.articles
             /\ exc' = IF r.err = "none" THEN NoExc ELSE Exc("GROUNDING", r.err)
    /\ pc' = "idle"
    /\ UNCHANGED <<pipeline_vars, reqs, generators, units, results, batch_saved>>

\* fetch_news_headlines, lines 472-541: one call, from its caller's point of view
FetchHeadlines ==
    /\ pc = "idle"
    /\ Fetches < MaxFetches
    /\ \E env \in NewsEnvs, n \in 1..MaxNews :
         LET r == fetch_news_headlines(env, n)
         IN  /\ news_env' = env
             /\ news_max_articles' = n
             /\ requests_log' = NewsRequests(env)
             /\ JINA_WARNING_EMITTED' =
                    (JINA_WARNING_EMITTED \/ JinaAdvisory(env, JINA_WARNING_EMITTED))
             /\ printed' = printed \o Advisories(env, JINA_WARNING_EMITTED)
             /\ stages' = stages \o <<"GROUNDING">>
                            \o (IF JinaAdvisory(env, JINA_WARNING_EMITTED)
                                THEN <<"ADVISORY">> ELSE <<>>)
             /\ news_articles' = r.articles
             /\ exc' = IF r.err = "none" THEN NoExc ELSE Exc("GROUNDING", r.err)
    /\ pc' = "idle"
    /\ UNCHANGED <<pipeline_vars, reqs, generators, units, results, batch_saved>>

NewsNext == FetchHeadlines

NewsSpec == NewsInit /\ [][NewsNext]_vars

----------------------------------------------------------------------------
(* Properties *)

\* position of the first entry of a stage in the history, 0 when it was not entered
Pos(stage) ==
    IF \E i \in 1..Len(stages) : stages[i] = stage
    THEN CHOOSE i \in 1..Len(stages) : stages[i] = stage /\ \A j \in 1..(i - 1) : stages[j] # stage
    ELSE 0
Entered(stage) == Pos(stage) > 0
Before(a, b) == Entered(b) => (Entered(a) /\ Pos(a) < Pos(b))
Times(stage) == Cardinality({i \in 1..Len(stages) : stages[i] = stage})

\* _parse_response has just run on content
ParseDone == stages # <<>> /\ stages[Len(stages)] = "PARSING"
\* the error it raised, "none" when it returned
ParseErr == IF pc = "raised" THEN exc.type ELSE "none"

\* the provider output is the JSON text of the payload and nothing else
SentBare == given.kind = "payload" /\ given.fence = "none"
            /\ given.pre = <<>> /\ given.post = <<>>

HasKey(obj, key) == obj.t = "obj" /\ \E i \in 1..Len(obj.v) : obj.v[i].k = key
Field(obj, key) == obj.v[CHOOSE i \in 1..Len(obj.v) :
                            obj.v[i].k = key /\ \A j \in (i + 1)..Len(obj.v) : obj.v[j].k # key].val
AllStrings(x) == x.t = "arr" /\ \A i \in 1..Len(x.v) : x.v[i].t = "str"

\* VIDEO_IDEAS_JSON_SCHEMA: the bounds of key_points
MinKeyPoints == 5
MaxKeyPoints == 10
RequiredFields == {<<"title">>, <<"hook">>, <<"key_points">>, <<"cta">>,
                   <<"hashtags">>, <<"target_audience">>}

\* an entry of "ideas" that satisfies the schema of an item; a duration of its
\* own is let through
ValidIdea(e) ==
    /\ e.t = "obj"
    /\ \A k \in RequiredFields : HasKey(e, k)
    /\ \A i \in 1..Len(e.v) : e.v[i].k \in RequiredFields \cup {<<"duration">>}
    /\ \A k \in {<<"title">>, <<"hook">>, <<"cta">>, <<"target_audience">>} :
          Field(e, k).t = "str"
    /\ AllStrings(Field(e, <<"key_points">>))
    /\ Len(Field(e, <<"key_points">>).v) \in MinKeyPoints..MaxKeyPoints
    /\ AllStrings(Field(e, <<"hashtags">>))

\* an object with an "ideas" array of idea objects
ValidPayload(v) ==
    /\ v.t = "obj"
    /\ Len(v.v) = 1 /\ v.v[1].k = <<"ideas">>
    /\ v.v[1].val.t = "arr"
    /\ \A i \in 1..Len(v.v[1].val.v) : ValidIdea(v.v[1].val.v[i])

\* C1 (as claimed): every provider output that is valid against the ideas schema
\* parses, to as many ideas as the "ideas" array has entries, each with the
\* duration of the platform.
C1_ValidOutputParses ==
    (ParseDone /\ SentBare /\ ValidPayload(given.payload)) =>
        /\ ParseErr = "none"
        /\ Len(ideas) = Len(given.payload.v[1].val.v)
        /\ \A i \in 1..Len(ideas) : ideas[i].duration = PlatformDurations[platform]

\* C2 (as claimed): when the extracted JSON is a well-formed object without an
\* "ideas" key, the parser fails with the "failed to parse" (schema) error.
C2_MissingIdeasKeyFails ==
    (ParseDone /\ data.t = "obj" /\ ~HasKey(data, <<"ideas">>)) =>
        (pc = "raised" /\ exc.type = "FailedToParse")

\* C3 (as claimed): ideas are returned only from a payload whose every entry is
\* fully populated and valid against the schema; any other payload fails the call.
C3_IdeasFullyPopulated ==
    (ParseDone /\ pc = "format" /\ ideas # <<>>) =>
        /\ HasKey(data, <<"ideas">>)
        /\ Field(data, <<"ideas">>).t = "arr"
        /\ \A i \in 1..Len(Field(data, <<"ideas">>).v) :
              ValidIdea(Field(data, <<"ideas">>).v[i])

\* no opening brace of the text is followed by a closing brace
NoBracePair(text) ==
    ~\E i, j \in 1..Len(text) : i < j /\ text[i] = LB /\ text[j] = RB

\* C4 (as claimed): a text that holds no pair of an opening and a closing brace
\* makes the parser fail with the "no JSON found" error, on every platform, and no
\* idea is returned.
C4_NoBracePairIsParseError ==
    (ParseDone /\ NoBracePair(content)) =>
        (pc = "raised" /\ exc.type = "NoJsonFound" /\ ideas = <<>>)

\* the text between the opening json fence of a fenced output and the next fence
FencedContent(g) ==
    LET after == <<NEWLINE>> \o Ser(g.payload) \o FenceClose(g.fence) \o g.post
        stops == {i \in 1..Len(after) : after[i] = FENCE}
    IN  SubSeq(after, 1, (CHOOSE i \in stops : \A j \in stops : i <= j) - 1)

\* C5: when the text holds a fenced json block (the first json fence of the text),
\* the result is the result of parsing the content of that block alone, whatever
\* prose, braces included, stands before or after the block.
C5_FencedJsonOnly ==
    (ParseDone /\ given.kind = "payload" /\ given.fence = "json"
        /\ ~Contains(given.pre, <<FENCE, JSONWORD>>)) =>
        LET alone == _parse_response(FencedContent(given), platform)
        IN  /\ ParseErr = alone.err
            /\ ideas = alone.ideas

C5_Witness ==
    /\ ParseDone /\ given.kind = "payload" /\ given.fence = "json"
    /\ \E i \in 1..Len(given.pre) : given.pre[i] = LB
    /\ \E i \in 1..Len(given.post) : given.post[i] = RB
    /\ pc = "format" /\ Len(ideas) = 2

\* C6: {"ideas": []} parses to the empty sequence without an error, on every
\* platform.
C6_EmptyIdeasArray ==
    (ParseDone /\ content \in {EmptyIdeasText, Ser(WithIdeas(JArr(<<>>)))}) =>
        (pc = "format" /\ exc = NoExc /\ ideas = <<>>)

C6_Witness ==
    ParseDone /\ content = EmptyIdeasText /\ pc = "format" /\ ideas = <<>>
    /\ platform = "instagram_reels"

\* C7 (as claimed): the ideas returned for a payload are as many as the entries of
\* its "ideas" array and in their order; each carries the platform of the call, its
\* duration, and exactly the key_points and the hashtags of its entry, in order.
C7_FieldsAndOrderPreserved ==
    (ParseDone /\ pc = "format" /\ SentBare /\ ValidPayload(given.payload)) =>
        LET entries == given.payload.v[1].val.v
        IN  /\ Len(ideas) = Len(entries)
            /\ \A i \in 1..Len(ideas) :
                  /\ ideas[i].platform = platform
                  /\ ideas[i].duration = PlatformDurations[platform]
                  /\ ideas[i].key_points = Field(entries[i], <<"key_points">>)
                  /\ ideas[i].hashtags = Field(entries[i], <<"hashtags">>)

\* C8 (as claimed): prompt building, then grounding when enabled, then the provider
\* call, then parsing, then DONE.
C8_ClaimedOrder ==
    /\ Before("BUILDING_PROMPT", "GROUNDING")
    /\ (use_news /\ Entered("CALLING_PROVIDER")) => Before("GROUNDING", "CALLING_PROVIDER")
    /\ Before("CALLING_PROVIDER", "PARSING")
    /\ Before("PARSING", "DONE")

\* C8 (amended): grounding, when enabled, comes first and has finished before prompt
\* building begins; the provider is called only after the prompt was built, parsing
\* starts only after the provider has returned, DONE comes only after parsing;
\* no stage is entered twice.
C8_StageOrder ==
    /\ (use_news /\ Entered("BUILDING_PROMPT")) => Before("GROUNDING", "BUILDING_PROMPT")
    /\ Entered("GROUNDING") => (use_news /\ Pos("GROUNDING") = 1)
    /\ Before("BUILDING_PROMPT", "CALLING_PROVIDER")
    /\ Entered("CALLING_PROVIDER") => generator.last_user_prompt # None
    /\ Before("CALLING_PROVIDER", "PARSING")
    /\ Entered("PARSING") => content # None
    /\ Before("PARSING", "DONE")
    /\ \A i, j \in 1..Len(stages) : stages[i] = stages[j] => i = j

C8_Witness ==
    /\ pc = "done" /\ use_news /\ news_articles # <<>>
    /\ Pos("GROUNDING") = 1
    /\ Pos("GROUNDING") < Pos("BUILDING_PROMPT")
    /\ Pos("BUILDING_PROMPT") < Pos("CALLING_PROVIDER")
    /\ Pos("CALLING_PROVIDER") < Pos("PARSING")
    /\ Pos("PARSING") < Pos("DONE")

GenerationStages == {"INIT_PROVIDER", "BUILDING_PROMPT", "CALLING_PROVIDER", "PARSING"}

\* C9: a failure of the provider construction, of prompt building, of the provider
\* call or of parsing ends the call as FAILED: the failing stage is the last one
\* entered, nothing is parsed after a provider failure, nothing is formatted or
\* saved, and the FAILED outcome reports the error that was raised.
C9_FailureShortCircuits ==
    /\ exc.stage \in GenerationStages =>
          /\ pc \in {"raised", "failed"}
          /\ exc.type # "none"
          /\ \/ stages[Len(stages)] = exc.stage
             \/ /\ Len(stages) > 1
                /\ stages[Len(stages)] = "FAILED"
                /\ stages[Len(stages) - 1] = exc.stage
          /\ ~Entered("FORMATTING") /\ ~Entered("DONE")
          /\ scripts = <<>> /\ saved = NotSaved /\ ideas = <<>>
          /\ exc.stage \in {"INIT_PROVIDER", "BUILDING_PROMPT"} => provider_calls = 0
          /\ exc.stage \in {"INIT_PROVIDER", "BUILDING_PROMPT", "CALLING_PROVIDER"} =>
                (~Entered("PARSING") /\ data = JNull)
    /\ pc = "failed" =>
          /\ outcome.status = "FAILED"
          /\ outcome.error = exc /\ exc # NoExc
          /\ stages[Len(stages)] = "FAILED" /\ Times("FAILED") = 1
    /\ Entered("FAILED") => pc = "failed"
    /\ outcome.status = "DONE" => exc = NoExc

C9_Witness ==
    /\ pc = "failed" /\ exc.stage = "CALLING_PROVIDER"
    /\ outcome.error.type = "ProviderError"
    /\ use_news /\ news_articles # <<>>

\* C10: a call issues at most one provider request: none before the prompt is
\* built, exactly one once the built prompt has been sent, and still one after a
\* failure of the provider or of the parser.
C10_OneProviderCall ==
    /\ provider_calls <= 1
    /\ provider_calls = Times("CALLING_PROVIDER")
    /\ generator.last_user_prompt = None => provider_calls = 0
    /\ (generator.last_user_prompt # None /\ pc # "call_provider") => provider_calls = 1
    /\ (pc \in {"raised", "failed"} /\ exc.stage \in {"CALLING_PROVIDER", "PARSING"}) =>
          provider_calls = 1

C10_Witness ==
    /\ pc = "failed" /\ exc.stage = "PARSING" /\ exc.type = "NoJsonFound"
    /\ provider_calls = 1

\* fetch_news_headlines has been called in this run
Fetched == Entered("GROUNDING")
\* it has returned its list
FetchReturned == Fetched /\ exc.stage # "GROUNDING"

\* C11 (as claimed): whatever the news request and the article fetches answer,
\* fetch_news_headlines returns a list: no failure of the grounding ends the call.
C11_GroundingNeverPropagates ==
    Fetched => (exc.stage # "GROUNDING" /\ (pc = "failed" => outcome.error.stage # "GROUNDING"))

\* the three cases in which the grounding degrades: no credential, a request that
\* fails (transport error or HTTP error status), a status other than ok
Degraded(env) ==
    \/ ~env.api_key
    \/ env.request \in {"transport_error", "http_error"}
    \/ env.request = "ok" /\ env.status # "ok"

\* the user prompt of a call without grounding
UngroundedPrompt == _build_prompt(Topic, platform, NumIdeas, None, Tone, None)

\* C12: without a credential, with a failed request or with a status that is not
\* ok, fetch_news_headlines returns the empty list without raising, the context
\* rendered from it is empty, and the call goes on: no context is put in the
\* prompt and no failure is due to the grounding.
C12_DegradesToNoGrounding ==
    (Fetched /\ Degraded(news_env)) =>
        /\ exc.stage # "GROUNDING"
        /\ pc \notin {"start"}
        /\ news_articles = <<>>
        /\ build_news_context(news_articles) = <<>>
        /\ news_context = None
        /\ generator.last_user_prompt # None =>
              generator.last_user_prompt = UngroundedPrompt
        /\ pc = "failed" => outcome.error.stage \in {"INIT_PROVIDER", "PLATFORM", "CALLING_PROVIDER", "PARSING", "FORMATTING"}

C12_Witness ==
    /\ pc = "done" /\ Fetched /\ news_env.api_key
    /\ news_env.request = "transport_error"
    /\ news_articles = <<>> /\ provider_calls = 1
    /\ generator.last_user_prompt = UngroundedPrompt

\* C13: without a news credential the enricher gives the empty context, raises
\* nothing and issues no request at all, neither for the news nor for an article.
C13_NoCredentialNoRequest ==
    (Fetched /\ ~news_env.api_key) =>
        /\ requests_log = <<>>
        /\ exc.stage # "GROUNDING"
        /\ news_articles = <<>>
        /\ build_news_context(news_articles) = <<>>
        /\ news_context = None

C13_Witness ==
    /\ Fetched /\ ~news_env.api_key /\ pc = "init_generator"
    /\ requests_log = <<>> /\ news_context = None

\* the record of the response a returned article was built from
RawOf(a) == CHOOSE r \in RawArticles : Strip(r.title) = a.title
\* the titled records of a response, in order
Titled(raw) == SelectSeq(raw, LAMBDA r : Strip(r.title) # <<>>)
Min(a, b) == IF a < b THEN a ELSE b
\* the news response was read: the request succeeded with status ok
ResponseRead == FetchReturned /\ news_env.api_key /\ news_env.request = "ok"
                /\ news_env.status = "ok"

\* C14 (as claimed): every direct fetch of a page comes after an attempt of the
\* extraction service on the same article that failed; when both fail the full
\* text is absent; no article is lost to a fetch.
C14_PrimaryThenFallback ==
    ResponseRead =>
        /\ \A i \in 1..Len(requests_log) :
              requests_log[i].kind = "direct" =>
                 /\ i > 1
                 /\ requests_log[i - 1] = Request("jina", requests_log[i].url)
        /\ Len(news_articles) = Min(news_max_articles, Len(Titled(news_env.articles)))

\* C14 (amended): with an extraction credential the extraction service is asked
\* first and the page is fetched directly only after it failed or gave no usable
\* text; without the credential only the direct fetch is made; the full text is
\* absent exactly when no fetch gave a usable text; no article is lost to a fetch.
C14_FullTextFallback ==
    ResponseRead =>
        /\ requests_log[1].kind = "news"
        /\ \A i \in 2..Len(requests_log) :
              LET r == requests_log[i]
                  article == CHOOSE a \in RawArticles : a.url = r.url
                  last == i = Len(requests_log)
              IN  /\ r.kind \in {"jina", "direct"}
                  /\ r.kind = "jina" =>
                        /\ news_env.jina_api_key
                        /\ article.jina # "ok" =>
                              (~last /\ requests_log[i + 1] = Request("direct", r.url))
                        /\ article.jina = "ok" =>
                              (last \/ requests_log[i + 1] # Request("direct", r.url)
                                    \/ requests_log[i + 1].kind = "jina")
                  /\ r.kind = "direct" =>
                        \/ ~news_env.jina_api_key
                        \/ /\ requests_log[i - 1] = Request("jina", r.url)
                           /\ article.jina # "ok"
        /\ \A i \in 1..Len(news_articles) :
              LET a == news_articles[i]
                  usable == \/ news_env.jina_api_key /\ RawOf(a).jina = "ok"
                            \/ RawOf(a).direct = "ok"
              IN  (a.full_content = None) <=> (a.url = <<>> \/ ~usable)
        /\ Len(news_articles) = Min(news_max_articles, Len(Titled(news_env.articles)))

C14_Witness ==
    /\ ResponseRead /\ news_env.jina_api_key /\ Len(news_articles) = 2
    /\ news_articles[1].title = <<"N2">> /\ news_articles[1].full_content = None
    /\ news_articles[2].title = <<"N5">> /\ news_articles[2].full_content # None
    /\ requests_log = <<Request("news", <<"newsapi.org">>),
                        Request("jina", <<"u2">>), Request("direct", <<"u2">>),
                        Request("jina", <<"u5">>), Request("direct", <<"u5">>)>>

\* C15: fetch_news_headlines returns at most max_articles articles, each with a
\* stripped title that is not empty, and they are the first titled articles of the
\* response, in the order of the response.
C15_TruncatedTitledInOrder ==
    ResponseRead =>
        LET titled == Titled(news_env.articles)
        IN  /\ Len(news_articles) <= news_max_articles
            /\ Len(news_articles) = Min(news_max_articles, Len(titled))
            /\ \A i \in 1..Len(news_articles) :
                  /\ news_articles[i].title # <<>>
                  /\ news_articles[i].title = Strip(news_articles[i].title)
                  /\ news_articles[i].title = Strip(titled[i].title)
                  /\ news_articles[i].url = titled[i].url

C15_Witness ==
    /\ ResponseRead /\ news_max_articles = 1 /\ Len(news_env.articles) = 2
    /\ Strip(news_env.articles[1].title) = <<>>
    /\ news_articles # <<>> /\ news_articles[1].title = <<"N5">>

\* the positions of the text at which a numbered entry begins
EntryStarts(text) == {q \in 1..(Len(text) - 1) : text[q + 1] = ". "}
\* the number of the entry a position of the text lies in
EntryOf(text, q) == Cardinality({e \in EntryStarts(text) : e <= q})
FullArticleAt(text) == {q \in 1..Len(text) : text[q] = "   FULL ARTICLE:"}
ContextBuilt == news_articles # <<>> /\ news_context # None

\* C16: the context rendered from n articles has n entries numbered 1..n in the
\* order of the articles, and an entry has a FULL ARTICLE section exactly when its
\* article has a full text.
C16_NumberedEntriesAndFullText ==
    ContextBuilt =>
        /\ Cardinality(EntryStarts(news_context)) = Len(news_articles)
        /\ \A q \in EntryStarts(news_context) :
              LET k == EntryOf(news_context, q)
              IN  /\ news_context[q] = NumText(k)
                  /\ SubSeq(news_context, q + 2, q + 1 + Len(news_articles[k].title))
                        = news_articles[k].title
        /\ \A k \in 1..Len(news_articles) :
              LET sections == {q \in FullArticleAt(news_context) :
                                  EntryOf(news_context, q) = k}
              IN  /\ Cardinality(sections) =
                        (IF news_articles[k].full_content \in {None, <<>>} THEN 0 ELSE 1)
                  /\ \A q \in sections :
                        SubSeq(news_context, q + 2,
                               q + 1 + Len(news_articles[k].full_content))
                           = news_articles[k].full_content

C16_Witness ==
    /\ ContextBuilt /\ Len(news_articles) = 2
    /\ news_articles[1].full_content # None /\ news_articles[2].full_content = None
    /\ Cardinality(EntryStarts(news_context)) = 2
    /\ Cardinality(FullArticleAt(news_context)) = 1
    /\ \A q \in FullArticleAt(news_context) : EntryOf(news_context, q) = 1

\* the prompts of the generate_ideas call in progress have been built
PromptBuilt == prompt # NoPrompts
\* client.generate has been invoked by the generate_ideas call in progress
Invoked ==
    \/ pc \in {"parse", "format"}
    \/ pc = "raised" /\ exc.stage \in {"CALLING_PROVIDER", "PARSING"}

Misconfigured(cfg) ==
    \/ Lower(cfg.name) \notin SupportedProviders
    \/ ~cfg.api_key /\ ~cfg.env_key

\* C18: the construction of a generator fails with a ValueError, and no client is
\* created, whenever the provider is not supported (an api_key argument or not) or
\* no credential comes with the argument or the environment.
C18_MisconfiguredConstructionFails ==
    (pc # "init_generator" /\ Misconfigured(provider)) =>
        /\ pc = "raised"
        /\ exc.stage = "INIT_PROVIDER"
        /\ exc.type \in {"ValueError: Unsupported provider",
                         "ValueError: API key must be provided"}
        /\ generator.client = "none"
        /\ args = NoArgs /\ sent = NoPrompts

C18_Witness ==
    /\ pc = "raised" /\ exc.stage = "INIT_PROVIDER"
    /\ provider = Config("claude", TRUE, FALSE, TRUE)
    /\ exc.type = "ValueError: Unsupported provider"
    /\ generator.client = "none"

\* C19 (as claimed): an exception that leaves generate_ideas from the provider call
\* or from the parser carries the name of the backend.
C19_FailureCarriesBackend ==
    (pc = "raised" /\ exc.stage \in {"CALLING_PROVIDER", "PARSING"}) =>
        exc.backend = generator.client

\* C20: client.generate is called with the prompts the generator exposes as
\* last_system_prompt and last_user_prompt, and once it was called, also after a
\* failure of the provider or of the parser, the two fields hold the prompts built
\* from the arguments of this call, not those of an earlier call.
C20_LastPromptsAreThoseSent ==
    /\ sent # NoPrompts =>
          sent = Prompts(generator.last_system_prompt, generator.last_user_prompt)
    /\ Invoked =>
          /\ sent # NoPrompts
          /\ generator.last_system_prompt = SystemPrompt
          /\ generator.last_user_prompt =
                _build_prompt(args.topic, args.platform, args.num_ideas,
                              args.target_audience, args.tone, args.additional_context)
          /\ (earlier # NoCall /\ earlier.args # args) =>
                generator.last_user_prompt # earlier.prompts.user_prompt

C20_Witness ==
    /\ pc = "raised" /\ exc.stage = "PARSING"
    /\ earlier # NoCall /\ earlier.args # args
    /\ sent.user_prompt = generator.last_user_prompt
    /\ sent.user_prompt # earlier.prompts.user_prompt

\* the two requests have ended
BothDone == pc = "concurrent" /\ \A r \in Requests : reqs[r].pc = "done"

\* what a request gives when the two run one after the other, r first or r second:
\* the ideas parsed from the answer to it, the prompts built from its arguments
AloneReturned(r) == _parse_response(Render(reqs[r].given), reqs[r].args.platform)
AlonePrompts(r) ==
    Prompts(SystemPrompt,
            _build_prompt(reqs[r].args.topic, reqs[r].args.platform,
                          reqs[r].args.num_ideas, reqs[r].args.target_audience,
                          reqs[r].args.tone, reqs[r].args.additional_context))
\* the advisories two requests print when run one after the other: the first one
\* prints it when JINA_API_KEY is not set, the second one never
AloneAdvisories ==
    IF news_env.jina_api_key THEN <<>> ELSE <<"JINA_API_KEY not set">>

\* C21 (as claimed): whatever the interleaving of two concurrent requests, on one
\* generator or on two, each request ends with the ideas, the recorded prompts and
\* the advisories it has when the two requests run one after the other.
C21_RequestsIndependent ==
    BothDone =>
        /\ \A r \in Requests :
              /\ reqs[r].returned = AloneReturned(r)
              /\ reqs[r].recorded = AlonePrompts(r)
        /\ printed = AloneAdvisories

\* the batch method has returned or has raised
BatchEnded == pc = "returned" \/ (pc = "raised" /\ exc.stage # "LOOKUP_TOPIC")

\* the units whose generation call succeeds
GoodUnits ==
    {i \in 1..Len(units) :
        vig_generate_ideas(units[i].given, units[i].platform).err = "none"}

\* C22 (as claimed): when a batch over topics or platforms has ended, the ideas of
\* every unit whose own generation call succeeds, before or after a unit that
\* failed, are in the results of the batch and in what was saved.
C22_UnitsIsolated ==
    BatchEnded =>
        \A i \in GoodUnits :
            LET entry == [name |-> units[i].name,
                          ideas |-> vig_generate_ideas(units[i].given,
                                                       units[i].platform).ideas]
            IN  /\ \E k \in 1..Len(results) : results[k] = entry
                /\ \E k \in 1..Len(batch_saved) : batch_saved[k] = entry

\* the decoded payload holds a list of objects under "ideas"
EntriesDecoded ==
    /\ ParseDone /\ HasKey(data, <<"ideas">>)
    /\ Field(data, <<"ideas">>).t = "arr"
    /\ \A i \in 1..Len(Field(data, <<"ideas">>).v) : Field(data, <<"ideas">>).v[i].t = "obj"
Entries == Field(data, <<"ideas">>).v
Lacks(e, key) == ~HasKey(e, key)

\* C23: when the decoded payload holds a list of objects under "ideas", the call
\* returns one idea for each entry, in order, also when entries lack key_points or
\* hashtags: such an idea has the empty sequence for the field it lacks.
C23_MissingSequencesDefaultEmpty ==
    EntriesDecoded =>
        /\ pc = "format" /\ exc = NoExc
        /\ Len(ideas) = Len(Entries)
        /\ \A i \in 1..Len(Entries) :
              /\ Lacks(Entries[i], <<"key_points">>) => ideas[i].key_points = JArr(<<>>)
              /\ Lacks(Entries[i], <<"hashtags">>) => ideas[i].hashtags = JArr(<<>>)
              /\ HasKey(Entries[i], <<"title">>) =>
                    ideas[i].title = Field(Entries[i], <<"title">>)
              /\ HasKey(Entries[i], <<"hashtags">>) =>
                    ideas[i].hashtags = Field(Entries[i], <<"hashtags">>)

C23_Witness ==
    /\ EntriesDecoded /\ pc = "format" /\ Len(ideas) = 2
    /\ Lacks(Entries[1], <<"key_points">>) /\ Lacks(Entries[1], <<"hashtags">>)
    /\ ideas[1].key_points = JArr(<<>>) /\ ideas[1].hashtags = JArr(<<>>)
    /\ ideas[1].title = JStr(<<"Hack #4">>)
    /\ ideas[2].title = JStr(<<"Hack #1">>) /\ Len(ideas[2].key_points.v) = 5

\* the positions of the fence markers of a text, and of those that open a json block
FenceAt(text) == {i \in 1..Len(text) : text[i] = FENCE}
JsonFenceAt(text) == {i \in FenceAt(text) : i < Len(text) /\ text[i + 1] = JSONWORD}
First(S) == CHOOSE i \in S : \A j \in S : i <= j
\* the text after position i, up to the next fence marker or to the end
BlockAfter(text, i) ==
    LET stops == {j \in FenceAt(text) : j > i}
    IN  SubSeq(text, i + 1, IF stops = {} THEN Len(text) ELSE First(stops) - 1)
\* the content of the first fenced block of the text, the word json after its
\* opening marker left out
FirstBlock(text) ==
    LET i == First(FenceAt(text))
    IN  BlockAfter(text, IF i \in JsonFenceAt(text) THEN i + 1 ELSE i)
\* the content of the first json block when the text has one, of the first block
\* otherwise
PreferredBlock(text) ==
    IF JsonFenceAt(text) # {}
    THEN BlockAfter(text, First(JsonFenceAt(text)) + 1)
    ELSE FirstBlock(text)
SeveralBlocks == ParseDone /\ Cardinality(FenceAt(content)) >= 3

\* C24 (as claimed): a text with several fenced blocks is parsed as the content of
\* its first fenced block, a json block or a bare one.
C24_FirstFencedBlock ==
    SeveralBlocks =>
        LET alone == _parse_response(FirstBlock(content), platform)
        IN  ParseErr = alone.err /\ ideas = alone.ideas

\* C24 (amended): a text with several fenced blocks is parsed as the content of its
\* first json block, up to the next fence marker, when it has a json block, also
\* when a bare block stands before it; without a json block it is parsed as the
\* content of its first block.  The blocks after the one taken have no influence.
C24_FirstJsonBlockElseFirstBlock ==
    SeveralBlocks =>
        LET alone == _parse_response(PreferredBlock(content), platform)
        IN  ParseErr = alone.err /\ ideas = alone.ideas

C24_Witness ==
    /\ SeveralBlocks /\ given.kind = "payload" /\ given.fence = "json"
    /\ given.pre = <<FENCE, "x", FENCE>> /\ given.post = <<FENCE, "x", FENCE>>
    /\ FirstBlock(content) = <<"x">>
    /\ pc = "format" /\ Len(ideas) = 2

\* the text the parser works on after the fence is stripped, and the text it
\* takes between the first opening brace and the last closing brace
Unfenced == StripFence(content)
Extracted == PySlice(Unfenced, PyFind(Unfenced, LB), PyRFind(Unfenced, RB) + 1)
\* the parser has run on a text with both braces whose extracted text is not JSON
Malformed ==
    /\ Entered("PARSING")
    /\ PyFind(Unfenced, LB) # -1 /\ PyRFind(Unfenced, RB) # -1
    /\ ~JsonLoads(StripControl(Extracted)).ok

\* C25: when the text has an opening and a closing brace and what stands between
\* the first opening and the last closing one is not JSON, also when the closing
\* brace comes first, the parser raises the failed-to-parse error, not the
\* no-JSON-found one; no idea is returned, the provider is not called again, nothing
\* is formatted or saved, and the call ends as failed with that error.
C25_MalformedJsonIsTerminal ==
    Malformed =>
        /\ pc \in {"raised", "failed"}
        /\ exc = Exc("PARSING", "FailedToParse")
        /\ ideas = <<>> /\ scripts = <<>> /\ saved = NotSaved
        /\ provider_calls = 1 /\ Times("PARSING") = 1
        /\ ~Entered("FORMATTING") /\ ~Entered("DONE")
        /\ pc = "failed" => outcome.error = Exc("PARSING", "FailedToParse")

C25_Witness ==
    /\ Malformed /\ pc = "failed" /\ content = <<RB, LB>>
    /\ Extracted = <<>>
    /\ outcome.error.type = "FailedToParse" /\ provider_calls = 1

\* the positions of a text that hold no control character
KeptAt(text) == {i \in 1..Len(text) : text[i] \notin {CTL, DEL}}
\* the parser has found both braces in the text
BracesFound ==
    ParseDone /\ PyFind(Unfenced, LB) # -1 /\ PyRFind(Unfenced, RB) # -1

\* C26: the text given to the JSON decoder is the extracted text without its
\* control characters: every other character, newline included, is kept, in
\* order; and the result of the call is the result for the same text without the
\* control characters.
C26_ControlCharactersStripped ==
    BracesFound =>
        /\ LET text == Extracted
               cleaned == StripControl(text)
               kept == KeptAt(text)
           IN  IF Cardinality(kept) = Len(text) THEN cleaned = text
               ELSE /\ Len(cleaned) = Cardinality(kept)
                    /\ \A i \in kept :
                          cleaned[Cardinality({j \in kept : j <= i})] = text[i]
        /\ LET without == _parse_response(SelectSeq(content, LAMBDA c : c \notin {CTL, DEL}),
                                          platform)
           IN  ParseErr = without.err /\ ideas = without.ideas

C26_Witness ==
    /\ BracesFound /\ content = StrayControlText
    /\ Cardinality(KeptAt(content)) = Len(content) - 4
    /\ \E i \in KeptAt(content) : content[i] = NEWLINE
    /\ pc = "format" /\ Len(ideas) = 1 /\ ideas[1].title = JStr(<<"A">>)

\* the last call read a response with status ok while JINA_API_KEY was not set
Eligible == Fetched /\ ResponseOk(news_env) /\ ~news_env.jina_api_key

\* C27: over the fetch_news_headlines calls of a process the advisory is printed
\* at most once: the flag is true exactly when the advisory has been printed, it
\* is printed by the first call that reads a response without JINA_API_KEY, and
\* never while the flag is true.
C27_AdvisoryAtMostOnce ==
    /\ Len(printed) <= 1
    /\ JINA_WARNING_EMITTED <=> printed # <<>>
    /\ Eligible => JINA_WARNING_EMITTED
    /\ Times("ADVISORY") = Len(printed)

C27_Witness ==
    /\ Times("GROUNDING") = 2 /\ Eligible
    /\ stages = <<"GROUNDING", "ADVISORY", "GROUNDING">>
    /\ JINA_WARNING_EMITTED /\ Len(printed) = 1

\* the grounding was enabled, returned, and gave no article
GroundingEmpty == use_news /\ FetchReturned /\ news_articles = <<>>

\* C28: when the grounding is enabled and gives no article (no credential, a
\* failed request, a status that is not ok, a response without a titled article),
\* the prompts sent to the provider are those of a call without grounding for the
\* same topic, platform and count: nothing of the grounding is in them.
C28_EmptyGroundingLeavesNoTrace ==
    (GroundingEmpty /\ sent # NoPrompts) =>
        /\ sent = Prompts(SystemPrompt, UngroundedPrompt)
        /\ args = Args(Topic, platform, NumIdeas, None, Tone, None)
        /\ \A i \in 1..Len(sent.user_prompt) :
              sent.user_prompt[i] #
                  "Use the following recent news stories as factual inspiration. ..."

C28_Witness ==
    /\ GroundingEmpty /\ pc = "done" /\ ResponseOk(news_env)
    /\ news_env.articles # <<>> /\ Titled(news_env.articles) = <<>>
    /\ requests_log = <<Request("news", <<"newsapi.org">>)>>
    /\ sent.user_prompt = UngroundedPrompt

\* the urls of the full-text fetches of a log, one for each attempt, in order: an
\* attempt starts with the Jina request when JINA_API_KEY is set, with the direct
\* request otherwise
AttemptUrls(log, jina_api_key) ==
    LET starts == SelectSeq(log, LAMBDA q : q.kind = IF jina_api_key THEN "jina" ELSE "direct")
    IN  [i \in 1..Len(starts) |-> starts[i].url]
\* the urls of the titled articles of a response that have one, in response order
TitledUrls(raw) ==
    LET with == SelectSeq(Titled(raw), LAMBDA a : a.url # <<>>)
    IN  [i \in 1..Len(with) |-> with[i].url]

\* C29: a call that reads an ok response attempts the full-text fetch once for each
\* titled article with a URL, in the order of the response and whatever
\* max_articles is: the articles the final slice cuts off were fetched as well.
C29_FetchesBeforeTruncation ==
    (Fetched /\ ResponseOk(news_env)) =>
        /\ AttemptUrls(requests_log, news_env.jina_api_key) = TitledUrls(news_env.articles)
        /\ Len(news_articles) = Min(news_max_articles, Len(Titled(news_env.articles)))
        /\ Len(news_articles) <= news_max_articles

C29_Witness ==
    /\ Fetched /\ ResponseOk(news_env) /\ news_max_articles = 1
    /\ Len(TitledUrls(news_env.articles)) = 2
    /\ Len(AttemptUrls(requests_log, news_env.jina_api_key)) = 2
    /\ Len(news_articles) = 1
    /\ news_articles[1].url # AttemptUrls(requests_log, news_env.jina_api_key)[2]

\* the two parsers are compared on content: it holds no fence marker
Unfenced30 == ParseDone /\ ~Contains(content, <<FENCE>>)
\* the fields of an idea the two modules share
SameIdea(a, b) ==
    /\ a.title = b.title /\ a.hook = b.hook /\ a.key_points = b.key_points
    /\ a.cta = b.cta /\ a.hashtags = b.hashtags
    /\ a.target_audience = b.target_audience /\ a.duration = b.duration

\* C30: on a text without a fence marker and a platform of both modules, the
\* parser of video_idea_generator.py fails exactly when the parser of
\* generate_scripts.py fails, and otherwise returns as many ideas, with the same
\* title, hook, key_points, cta, hashtags, target_audience and duration.
C30_ParsersAgreeUnfenced ==
    Unfenced30 =>
        LET other == vig_parse_response(content, platform)
        IN  /\ (ParseErr = "none") <=> (other.err = "none")
            /\ ParseErr = "none" =>
                  /\ Len(ideas) = Len(other.ideas)
                  /\ \A i \in 1..Len(ideas) : SameIdea(ideas[i], other.ideas[i])

C30_Witness ==
    /\ Unfenced30 /\ given.kind = "payload" /\ given.pre = <<RB, "ok">>
    /\ pc = "format" /\ Len(ideas) = 2
    /\ Len(vig_parse_response(content, platform).ideas) = 2
    /\ ideas[2].duration = vig_PlatformDurations[platform]

====
